---- MODULE Spec2Model ----
(***************************************************************************)
(* Aggregated Bulletproofs range proofs: the parties, the dealer, the      *)
(* inner-product argument, RangeProof::verify and the wire format.         *)
(*                                                                         *)
(* Scalars are the integers modulo a small prime P (the code's scalar      *)
(* field has order l ~ 2^252).  Points are elements of the free module     *)
(* over the basis B, B_blinding, G[j][i], H[j][i]: a point is the vector   *)
(* of its coefficients, so a multiscalar multiplication is the identity    *)
(* exactly when every coefficient vanishes (the generators are independent *)
(* of each other).  The transcript is its log of appended messages; a      *)
(* challenge is a function of the log, never zero.                         *)
(***************************************************************************)
EXTENDS Integers, Sequences, FiniteSets, TLC

(***************************************************************************)
(* Bounds of the model.                                                    *)
(***************************************************************************)
\* which prime of Primes is the order of the scalar field
FieldIdx == 1
\* Generators::new(pg, gens_capacity, party_capacity)
GensCapacity == 8
PartyCapacity == 2
\* number of seeds of the prover's RNG and of transcript hash functions
NumSeeds == 1
NumOracles == 1

Primes == <<11, 13>>
P == Primes[FieldIdx]

\* every element on the wire is 32 bytes
ElemBytes == 32

Scalars == 0 .. (P - 1)

(***************************************************************************)
(* curve25519_dalek::scalar::Scalar                                        *)
(***************************************************************************)
Add(a, b) == (a + b) % P
Sub(a, b) == (a + P - b) % P
Mul(a, b) == (a * b) % P
Neg(a) == (P - a) % P

\* square and multiply
RECURSIVE Pow(_, _)
Pow(a, e) ==
    IF e = 0 THEN 1
    ELSE LET h == Pow(a, e \div 2)
         IN  IF e % 2 = 0 THEN Mul(h, h) ELSE Mul(a, Mul(h, h))

\* Scalar::invert: a^(l-2); the inverse of zero is zero
Inv(a) == Pow(a, P - 2)

\* Scalar::from(u64)
FromU64(v) == v % P

\* (v >> i) & 1
Bit(v, i) == (v \div (2 ^ i)) % 2

(***************************************************************************)
(* util: vectors of scalars                                                *)
(***************************************************************************)
\* s[lo] + ... + s[hi], summed by halves
RECURSIVE SumRange(_, _, _)
SumRange(s, lo, hi) ==
    IF lo > hi THEN 0
    ELSE IF lo = hi THEN s[lo] % P
    ELSE LET mid == (lo + hi) \div 2
         IN  Add(SumRange(s, lo, mid), SumRange(s, mid + 1, hi))

SumSeq(s, k) == SumRange(s, 1, k)

\* util::inner_product
inner_product(a, b) == SumSeq([i \in 1 .. Len(a) |-> Mul(a[i], b[i])], Len(a))

\* util::add_vec
add_vec(a, b) == [i \in 1 .. Len(a) |-> Add(a[i], b[i])]

\* util::exp_iter(x).take(k): 1, x, x^2, ...
exp_iter(x, k) == [i \in 1 .. k |-> Pow(x, i - 1)]

\* util::sum_of_powers(x, k) = x^0 + ... + x^(k-1)
sum_of_powers(x, k) == SumSeq(exp_iter(x, k), k)

\* util::scalar_exp_vartime
scalar_exp_vartime(x, e) == Pow(x, e)

Reverse(s) == [i \in 1 .. Len(s) |-> s[Len(s) + 1 - i]]

Take(s, k) == IF k >= Len(s) THEN s ELSE SubSeq(s, 1, k)

Min(a, b) == IF a < b THEN a ELSE b

(***************************************************************************)
(* curve25519_dalek::ristretto::RistrettoPoint, generators::Generators     *)
(***************************************************************************)
NumGens == PartyCapacity * GensCapacity
Dim == 2 + 2 * NumGens

Identity == [i \in 1 .. Dim |-> 0]
Unit(k) == [i \in 1 .. Dim |-> IF i = k THEN 1 ELSE 0]

\* PedersenGens
B == Unit(1)
B_blinding == Unit(2)
\* slot i (from 0) of party j (from 0)
GIndex(j, i) == 2 + j * GensCapacity + i + 1
HIndex(j, i) == 2 + NumGens + j * GensCapacity + i + 1
GenG(j, i) == Unit(GIndex(j, i))
GenH(j, i) == Unit(HIndex(j, i))

PAdd(p, q) == [i \in 1 .. Dim |-> Add(p[i], q[i])]
PSub(p, q) == [i \in 1 .. Dim |-> Sub(p[i], q[i])]
PMul(s, p) == [i \in 1 .. Dim |-> Mul(s, p[i])]
is_identity(p) == \A i \in 1 .. Dim : p[i] = 0

\* multiscalar_mul: the scalars and the points are paired off by position
MsmCoord(ss, ps, c, k) == SumSeq([i \in 1 .. k |-> Mul(ss[i], ps[i][c])], k)

multiscalar_mul(ss, ps) ==
    LET k == Min(Len(ss), Len(ps))
    IN  [c \in 1 .. Dim |-> MsmCoord(ss, ps, c, k)]

\* PedersenGens::commit
commit(v, r) == [i \in 1 .. Dim |-> IF i = 1 THEN v ELSE IF i = 2 THEN r ELSE 0]

\* Generators::G(n, m), Generators::H(n, m): the first n of each of the first m
gens_G(n, m) == [k \in 1 .. n * m |-> GenG((k - 1) \div n, (k - 1) % n)]
gens_H(n, m) == [k \in 1 .. n * m |-> GenH((k - 1) \div n, (k - 1) % n)]

(***************************************************************************)
(* 32-byte encodings                                                       *)
(***************************************************************************)
\* Scalar::as_bytes: 32 bytes, little endian
scalar_bytes(s) ==
    [k \in 1 .. ElemBytes |-> IF k = 1 THEN s % 256 ELSE IF k = 2 THEN (s \div 256) % 256 ELSE 0]

\* Option<T>: None is the empty sequence, Some(x) is <<x>>
None == <<>>
Some(x) == <<x>>

\* Scalar::from_canonical_bytes: the value when it is below the field order
from_canonical_bytes(bs) ==
    IF (\A k \in 3 .. ElemBytes : bs[k] = 0) /\ bs[1] + 256 * bs[2] < P
    THEN Some(bs[1] + 256 * bs[2])
    ELSE None

\* RistrettoPoint::compress: two coefficients a byte
Coef(p, i) == IF i <= Dim THEN p[i] ELSE 0
compress(p) == [k \in 1 .. ElemBytes |-> Coef(p, 2 * k - 1) + 16 * Coef(p, 2 * k)]

\* CompressedRistretto::decompress: None when the bytes encode no point
Nibble(bs, i) == IF i % 2 = 1 THEN bs[(i + 1) \div 2] % 16 ELSE bs[i \div 2] \div 16
decompress(bs) ==
    IF \A i \in 1 .. 2 * ElemBytes : IF i <= Dim THEN Nibble(bs, i) < P ELSE Nibble(bs, i) = 0
    THEN Some([i \in 1 .. Dim |-> Nibble(bs, i)])
    ELSE None

(***************************************************************************)
(* merlin::Transcript with transcript::TranscriptProtocol                  *)
(*                                                                         *)
(* A transcript is the log of what was appended and the running state st   *)
(* that absorbs it.  A challenge absorbs its own label and is a function   *)
(* of the state after that and of the hash function in use (oracle).       *)
(***************************************************************************)
HashModulus == 32749

LabelCode(label) ==
    CASE label = "dom-sep" -> 1 [] label = "V" -> 2 [] label = "A" -> 3
      [] label = "S" -> 4 [] label = "y" -> 5 [] label = "z" -> 6
      [] label = "T_1" -> 7 [] label = "T_2" -> 8 [] label = "x" -> 9
      [] label = "t_x" -> 10 [] label = "t_x_blinding" -> 11
      [] label = "e_blinding" -> 12 [] label = "w" -> 13 [] label = "L" -> 14
      [] label = "R" -> 15 [] label = "u" -> 16 [] label = "new" -> 17
      [] OTHER -> 18

Absorb1(st, b) == (st * 131 + b + 1) % HashModulus

\* absorbing data[lo .. hi] byte by byte takes the state st to
\* (st * mul + add) % HashModulus; the two halves are composed
RECURSIVE AbsorbRange(_, _, _)
AbsorbRange(data, lo, hi) ==
    IF lo > hi THEN [mul |-> 1, add |-> 0]
    ELSE IF lo = hi THEN [mul |-> 131, add |-> (data[lo] + 1) % HashModulus]
    ELSE LET mid == (lo + hi) \div 2
         IN  CHOOSE composed \in
                 {[mul |-> (first.mul * second.mul) % HashModulus,
                   add |-> (first.add * second.mul + second.add) % HashModulus] :
                      first \in {AbsorbRange(data, lo, mid)},
                      second \in {AbsorbRange(data, mid + 1, hi)}} : TRUE

Absorb(st, label, data) ==
    LET bytes == AbsorbRange(data, 1, Len(data))
    IN  (Absorb1(st, LabelCode(label)) * bytes.mul + bytes.add) % HashModulus

\* a transcript that does not absorb the label it is created with
transcript_unlabelled(label) ==
    [log |-> << <<"new", "label", <<label>> >> >>, st |-> Absorb(0, "new", <<>>)]

\* Transcript::new(label)
transcript_new(label) ==
    [log |-> << <<"new", "label", <<label>> >> >>, st |-> Absorb(0, "new", <<label>>)]

\* Transcript::commit_bytes(label, data)
commit_bytes(t, label, data) ==
    [log |-> Append(t.log, <<"commit", label, data>>), st |-> Absorb(t.st, label, data)]

\* TranscriptProtocol::rangeproof_domain_sep(n, m)
rangeproof_domain_sep(t, n, m) == commit_bytes(t, "dom-sep", <<n, m>>)

\* TranscriptProtocol::commit_point(label, compressed point)
commit_point(t, label, bs) == commit_bytes(t, label, bs)

\* TranscriptProtocol::commit_scalar(label, scalar)
commit_scalar(t, label, s) == commit_bytes(t, label, scalar_bytes(s))

\* TranscriptProtocol::challenge_scalar(label): the transcript after the draw
challenge_transcript(t, label) ==
    [log |-> Append(t.log, <<"challenge", label, <<>> >>), st |-> Absorb(t.st, label, <<0>>)]

\* TranscriptProtocol::challenge_scalar(label): the scalar drawn, never zero
challenge_value(t, label, oracle) ==
    1 + ((challenge_transcript(t, label).st + 5 * oracle) % (P - 1))

(***************************************************************************)
(* The prover's RNG: a seeded stream; ctr counts the scalars drawn.        *)
(***************************************************************************)
\* Scalar::random(rng), draw number k of the stream
RandomAt(seed, k) == ((seed + 2) * (k * k + 3 * k + 1) + k) % P

random_vec(rng, first, n) == [i \in 1 .. n |-> RandomAt(rng.seed, rng.ctr + first + i - 1)]

advance(rng, k) == [seed |-> rng.seed, ctr |-> rng.ctr + k]

(***************************************************************************)
(* util::VecPoly1, util::Poly2                                             *)
(***************************************************************************)
\* an inner product of polynomials whose middle coefficient keeps t2
poly_inner_product_t2_kept(l, r) ==
    LET t0 == inner_product(l[1], r[1])
        t2 == inner_product(l[2], r[2])
    IN  <<t0, Sub(inner_product(add_vec(l[1], l[2]), add_vec(r[1], r[2])), t0), t2>>

\* VecPoly1::inner_product, by Karatsuba's method
poly_inner_product(l, r) ==
    LET t0 == inner_product(l[1], r[1])
        t2 == inner_product(l[2], r[2])
        l0_plus_l1 == add_vec(l[1], l[2])
        r0_plus_r1 == add_vec(r[1], r[2])
        t1 == Sub(Sub(inner_product(l0_plus_l1, r0_plus_r1), t0), t2)
    IN  <<t0, t1, t2>>

\* VecPoly1::eval
vecpoly_eval(poly, xx) == [i \in 1 .. Len(poly[1]) |-> Add(poly[1][i], Mul(poly[2][i], xx))]

\* Poly2::eval
poly2_eval(t, xx) == Add(t[1], Mul(xx, Add(t[2], Mul(xx, t[3]))))

(***************************************************************************)
(* aggregated_range_proof::party                                           *)
(***************************************************************************)
\* what the end of a state's life leaves in the memory that held it: the
\* three state structs have no Drop implementation and the methods that take
\* them by value write nothing to them, so the fields stay as they were
drop(self) == self

\* Party::new
party_new(v, v_blinding, n) ==
    [stage |-> "AwaitingPosition", n |-> n, v |-> v, v_blinding |-> v_blinding,
     V |-> commit(FromU64(v), v_blinding)]

\* the loop of assign_position that commits to the bits of v: bit i adds
\* G_i when it is 1 and subtracts H_i when it is 0
commit_bits(a_blinding, v, j, k) ==
    multiscalar_mul(
        <<a_blinding>> \o [i \in 1 .. k |-> IF Bit(v, i - 1) = 1 THEN 1 ELSE 0]
                      \o [i \in 1 .. k |-> IF Bit(v, i - 1) = 1 THEN 0 ELSE Neg(1)],
        <<B_blinding>> \o [i \in 1 .. k |-> GenG(j, i - 1)]
                      \o [i \in 1 .. k |-> GenH(j, i - 1)])

\* what the loop of assign_position executes at each bit index: the branch
\* of `if v_i == 1` that is taken and the group operation in it
assign_position_ops(v, k) ==
    [i \in 1 .. k |-> IF Bit(v, i - 1) = 1 THEN <<"then", "add">> ELSE <<"else", "sub">>]

\* what the loop of the single-party generate_proof executes at each bit
\* index: -H[i], a conditional assignment of G[i] chosen by the bit, an add
generate_proof_ops(v, k) ==
    [i \in 1 .. k |-> <<"neg", "conditional_assign", "add">>]

\* an assign_position that hands back the state it was called on
assign_position_kept(self, j, rng) ==
    [state |-> self,
     msg |-> [V |-> self.V, A |-> commit_bits(RandomAt(rng.seed, rng.ctr), self.v, j, self.n),
              S |-> Identity],
     rng |-> advance(rng, 2 + 2 * self.n)]

\* PartyAwaitingPosition::assign_position: the next state, the
\* ValueCommitment and the RNG after it
assign_position(self, j, rng) ==
    LET n == self.n
        a_blinding == RandomAt(rng.seed, rng.ctr)
        A == commit_bits(a_blinding, self.v, j, n)
        s_blinding == RandomAt(rng.seed, rng.ctr + 1)
        s_L == random_vec(rng, 2, n)
        s_R == random_vec(rng, 2 + n, n)
        S == multiscalar_mul(
                 <<s_blinding>> \o s_L \o s_R,
                 <<B_blinding>> \o [i \in 1 .. n |-> GenG(j, i - 1)]
                                \o [i \in 1 .. n |-> GenH(j, i - 1)])
        value_commitment == [V |-> self.V, A |-> A, S |-> S]
    IN  [state |-> [stage |-> "AwaitingValueChallenge", n |-> n, v |-> self.v,
                    v_blinding |-> self.v_blinding, j |-> j,
                    value_commitment |-> value_commitment,
                    a_blinding |-> a_blinding, s_blinding |-> s_blinding,
                    s_L |-> s_L, s_R |-> s_R],
         msg |-> value_commitment,
         rng |-> advance(rng, 2 + 2 * n)]

\* a party that takes the powers of y from y^0 whatever its position
apply_value_challenge_no_offset(self, vc, rng) ==
    LET n == self.n
        offset_z == scalar_exp_vartime(vc.z, self.j)
        zz == Mul(vc.z, vc.z)
        exp_y == [i \in 1 .. n |-> Pow(vc.y, i - 1)]
        a_L == [i \in 1 .. n |-> FromU64(Bit(self.v, i - 1))]
        l_poly == << [i \in 1 .. n |-> Sub(a_L[i], vc.z)], self.s_L >>
        r_poly == << [i \in 1 .. n |->
                        Add(Mul(exp_y[i], Add(Sub(a_L[i], 1), vc.z)),
                            Mul(Mul(zz, offset_z), Pow(2, i - 1)))],
                     [i \in 1 .. n |-> Mul(exp_y[i], self.s_R[i])] >>
        t_poly == poly_inner_product(l_poly, r_poly)
        t_1_blinding == RandomAt(rng.seed, rng.ctr)
        t_2_blinding == RandomAt(rng.seed, rng.ctr + 1)
        poly_commitment == [T_1 |-> commit(t_poly[2], t_1_blinding),
                            T_2 |-> commit(t_poly[3], t_2_blinding)]
    IN  [state |-> [stage |-> "AwaitingPolyChallenge",
                    value_commitment |-> self.value_commitment,
                    poly_commitment |-> poly_commitment,
                    z |-> vc.z, offset_z |-> offset_z,
                    l_poly |-> l_poly, r_poly |-> r_poly, t_poly |-> t_poly,
                    v_blinding |-> self.v_blinding,
                    a_blinding |-> self.a_blinding, s_blinding |-> self.s_blinding,
                    t_1_blinding |-> t_1_blinding, t_2_blinding |-> t_2_blinding],
         msg |-> poly_commitment,
         rng |-> advance(rng, 2)]

\* PartyAwaitingValueChallenge::apply_challenge: the next state, the
\* PolyCommitment and the RNG after it
apply_value_challenge(self, vc, rng) ==
    LET n == self.n
        offset_y == scalar_exp_vartime(vc.y, self.j * n)
        offset_z == scalar_exp_vartime(vc.z, self.j)
        zz == Mul(vc.z, vc.z)
        exp_y == [i \in 1 .. n |-> Mul(offset_y, Pow(vc.y, i - 1))]
        exp_2 == [i \in 1 .. n |-> Pow(2, i - 1)]
        a_L == [i \in 1 .. n |-> FromU64(Bit(self.v, i - 1))]
        a_R == [i \in 1 .. n |-> Sub(a_L[i], 1)]
        l_poly == << [i \in 1 .. n |-> Sub(a_L[i], vc.z)], self.s_L >>
        r_poly == << [i \in 1 .. n |->
                        Add(Mul(exp_y[i], Add(a_R[i], vc.z)),
                            Mul(Mul(zz, offset_z), exp_2[i]))],
                     [i \in 1 .. n |-> Mul(exp_y[i], self.s_R[i])] >>
        t_poly == poly_inner_product(l_poly, r_poly)
        t_1_blinding == RandomAt(rng.seed, rng.ctr)
        t_2_blinding == RandomAt(rng.seed, rng.ctr + 1)
        T_1 == commit(t_poly[2], t_1_blinding)
        T_2 == commit(t_poly[3], t_2_blinding)
        poly_commitment == [T_1 |-> T_1, T_2 |-> T_2]
    IN  [state |-> [stage |-> "AwaitingPolyChallenge",
                    value_commitment |-> self.value_commitment,
                    poly_commitment |-> poly_commitment,
                    z |-> vc.z, offset_z |-> offset_z,
                    l_poly |-> l_poly, r_poly |-> r_poly, t_poly |-> t_poly,
                    v_blinding |-> self.v_blinding,
                    a_blinding |-> self.a_blinding, s_blinding |-> self.s_blinding,
                    t_1_blinding |-> t_1_blinding, t_2_blinding |-> t_2_blinding],
         msg |-> poly_commitment,
         rng |-> advance(rng, 2)]

\* a party that leaves the blinding of its value out of t_x_blinding
apply_poly_challenge_unblinded(self, pc) ==
    [value_commitment |-> self.value_commitment,
     poly_commitment |-> self.poly_commitment,
     t_x_blinding |-> poly2_eval(<<0, self.t_1_blinding, self.t_2_blinding>>, pc.x),
     t_x |-> poly2_eval(self.t_poly, pc.x),
     e_blinding |-> Add(self.a_blinding, Mul(self.s_blinding, pc.x)),
     l_vec |-> vecpoly_eval(self.l_poly, pc.x),
     r_vec |-> vecpoly_eval(self.r_poly, pc.x)]

\* PartyAwaitingPolyChallenge::apply_challenge: the ProofShare
apply_poly_challenge(self, pc) ==
    LET t_blinding_poly ==
            << Mul(Mul(Mul(self.z, self.z), self.offset_z), self.v_blinding),
               self.t_1_blinding, self.t_2_blinding >>
    IN  [value_commitment |-> self.value_commitment,
         poly_commitment |-> self.poly_commitment,
         t_x_blinding |-> poly2_eval(t_blinding_poly, pc.x),
         t_x |-> poly2_eval(self.t_poly, pc.x),
         e_blinding |-> Add(self.a_blinding, Mul(self.s_blinding, pc.x)),
         l_vec |-> vecpoly_eval(self.l_poly, pc.x),
         r_vec |-> vecpoly_eval(self.r_poly, pc.x)]

(***************************************************************************)
(* inner_product_proof::InnerProductProof                                  *)
(***************************************************************************)
Lo(s) == SubSeq(s, 1, Len(s) \div 2)
Hi(s) == SubSeq(s, Len(s) \div 2 + 1, Len(s))

\* InnerProductProof::create: while n > 1 commit to L and R, draw u, fold
RECURSIVE ipa_rounds(_, _, _, _, _, _, _, _, _)
ipa_rounds(t, oracle, Q, G, H, a, b, L_vec, R_vec) ==
    IF Len(a) <= 1
    THEN [transcript |-> t,
          proof |-> [L_vec |-> L_vec, R_vec |-> R_vec, a |-> a[1], b |-> b[1]]]
    ELSE LET h == Len(a) \div 2
             L == multiscalar_mul(Lo(a) \o Hi(b) \o <<inner_product(Lo(a), Hi(b))>>,
                                  Hi(G) \o Lo(H) \o <<Q>>)
             R == multiscalar_mul(Hi(a) \o Lo(b) \o <<inner_product(Hi(a), Lo(b))>>,
                                  Lo(G) \o Hi(H) \o <<Q>>)
             t1 == commit_point(commit_point(t, "L", compress(L)), "R", compress(R))
             u == challenge_value(t1, "u", oracle)
             u_inv == Inv(u)
         IN  ipa_rounds(
                 challenge_transcript(t1, "u"), oracle, Q,
                 [i \in 1 .. h |-> PAdd(PMul(u_inv, G[i]), PMul(u, G[h + i]))],
                 [i \in 1 .. h |-> PAdd(PMul(u, H[i]), PMul(u_inv, H[h + i]))],
                 [i \in 1 .. h |-> Add(Mul(a[i], u), Mul(a[h + i], u_inv))],
                 [i \in 1 .. h |-> Add(Mul(b[i], u_inv), Mul(b[h + i], u))],
                 Append(L_vec, compress(L)), Append(R_vec, compress(R)))

ipa_create(t, oracle, Q, G, H, a, b) == ipa_rounds(t, oracle, Q, G, H, a, b, <<>>, <<>>)

\* one turn of the loop of InnerProductProof::create, in its steps: the
\* scalars and the points of L and of R on what the prover holds
ipa_round_terms(st) ==
    [L_scalars |-> Lo(st.a) \o Hi(st.b) \o <<inner_product(Lo(st.a), Hi(st.b))>>,
     L_points |-> Hi(st.G) \o Lo(st.H) \o <<st.Q>>,
     R_scalars |-> Hi(st.a) \o Lo(st.b) \o <<inner_product(Hi(st.a), Lo(st.b))>>,
     R_points |-> Lo(st.G) \o Hi(st.H) \o <<st.Q>>]

\* a turn whose pair goes to the transcript but not to the proof
ipa_round_fold_unrecorded(st, L, R, t1, u, u_inv) ==
    LET h == Len(st.a) \div 2
    IN  [transcript |-> challenge_transcript(t1, "u"), Q |-> st.Q,
         G |-> [i \in 1 .. h |-> PAdd(PMul(u_inv, st.G[i]), PMul(u, st.G[h + i]))],
         H |-> [i \in 1 .. h |-> PAdd(PMul(u, st.H[i]), PMul(u_inv, st.H[h + i]))],
         a |-> [i \in 1 .. h |-> Add(Mul(st.a[i], u), Mul(st.a[h + i], u_inv))],
         b |-> [i \in 1 .. h |-> Add(Mul(st.b[i], u_inv), Mul(st.b[h + i], u))],
         L_vec |-> st.L_vec, R_vec |-> st.R_vec]

\* the rest of the turn once u is drawn from the transcript t1: the pair
\* joins the proof and the halves of a, b, G and H are folded with u
ipa_round_fold(st, L, R, t1, u, u_inv) ==
    LET h == Len(st.a) \div 2
    IN  [transcript |-> challenge_transcript(t1, "u"), Q |-> st.Q,
         G |-> [i \in 1 .. h |-> PAdd(PMul(u_inv, st.G[i]), PMul(u, st.G[h + i]))],
         H |-> [i \in 1 .. h |-> PAdd(PMul(u, st.H[i]), PMul(u_inv, st.H[h + i]))],
         a |-> [i \in 1 .. h |-> Add(Mul(st.a[i], u), Mul(st.a[h + i], u_inv))],
         b |-> [i \in 1 .. h |-> Add(Mul(st.b[i], u_inv), Mul(st.b[h + i], u))],
         L_vec |-> Append(st.L_vec, L),
         R_vec |-> Append(st.R_vec, R)]

\* the challenges u_j, replayed from the proof's L_j and R_j
RECURSIVE ipa_challenges(_, _, _, _)
ipa_challenges(t, oracle, proof, k) ==
    IF k = 0 THEN [transcript |-> t, u |-> <<>>]
    ELSE LET prev == ipa_challenges(t, oracle, proof, k - 1)
             t1 == commit_point(commit_point(prev.transcript, "L", proof.L_vec[k]),
                                "R", proof.R_vec[k])
         IN  [transcript |-> challenge_transcript(t1, "u"),
              u |-> Append(prev.u, challenge_value(t1, "u", oracle))]

\* an s_i that takes the lowest bit of i for the first round
RECURSIVE s_entry_low_bit_first(_, _, _)
s_entry_low_bit_first(u, i, j) ==
    IF j = 0 THEN 1
    ELSE Mul(s_entry_low_bit_first(u, i, j - 1),
             IF Bit(i, j - 1) = 1 THEN u[j] ELSE Inv(u[j]))

\* s_i: the product over the rounds j of u_j when the bit of i that round j
\* folds (the highest bit for the first round) is 1, and of 1/u_j when it is 0
RECURSIVE s_entry(_, _, _)
s_entry(u, i, j) ==
    IF j = 0 THEN 1
    ELSE LET k == Len(u)
         IN  Mul(s_entry(u, i, j - 1),
                 IF Bit(i, k - j) = 1 THEN u[j] ELSE Inv(u[j]))

\* InnerProductProof::verification_scalars
verification_scalars(proof, t, oracle) ==
    LET ch == ipa_challenges(t, oracle, proof, Len(proof.L_vec))
        k == Len(ch.u)
    IN  [transcript |-> ch.transcript,
         x_sq |-> [j \in 1 .. k |-> Mul(ch.u[j], ch.u[j])],
         x_inv_sq |-> [j \in 1 .. k |-> Mul(Inv(ch.u[j]), Inv(ch.u[j]))],
         s |-> [i \in 1 .. 2 ^ k |-> s_entry(ch.u, i - 1, k)]]

\* InnerProductProof::to_bytes: L_0, R_0, ..., then a, b
RECURSIVE lr_bytes(_, _, _)
lr_bytes(L_vec, R_vec, k) ==
    IF k = 0 THEN <<>> ELSE lr_bytes(L_vec, R_vec, k - 1) \o L_vec[k] \o R_vec[k]

ipp_to_bytes(proof) ==
    lr_bytes(proof.L_vec, proof.R_vec, Len(proof.L_vec))
        \o scalar_bytes(proof.a) \o scalar_bytes(proof.b)

\* util::read32 of the slice from element k (from 0) on
read32(slice, k) == SubSeq(slice, k * ElemBytes + 1, (k + 1) * ElemBytes)

\* Result<T, ProofError>
Ok(x) == [ok |-> TRUE, val |-> x]
Err(e) == [ok |-> FALSE, err |-> e]
FormatError == Err("FormatError")

\* InnerProductProof::from_bytes
ipp_from_bytes(slice) ==
    LET num_elements == Len(slice) \div ElemBytes IN
    IF Len(slice) % ElemBytes # 0 THEN FormatError
    ELSE IF num_elements < 2 THEN FormatError
    ELSE IF (num_elements - 2) % 2 # 0 THEN FormatError
    ELSE LET lg_n == (num_elements - 2) \div 2
             a == from_canonical_bytes(read32(slice, 2 * lg_n))
             b == from_canonical_bytes(read32(slice, 2 * lg_n + 1))
         IN  IF a = None \/ b = None THEN FormatError
             ELSE Ok([L_vec |-> [k \in 1 .. lg_n |-> read32(slice, 2 * (k - 1))],
                      R_vec |-> [k \in 1 .. lg_n |-> read32(slice, 2 * (k - 1) + 1)],
                      a |-> a[1], b |-> b[1]])

(***************************************************************************)
(* range_proof::RangeProof                                                 *)
(***************************************************************************)
ValidBitsize(n) == n = 8 \/ n = 16 \/ n = 32 \/ n = 64

\* a delta whose second term is added
delta_added(n, m, y, z) ==
    LET sum_y == sum_of_powers(y, n * m)
        sum_2 == sum_of_powers(FromU64(2), n)
        sum_z == sum_of_powers(z, m)
    IN  Add(Mul(Sub(z, Mul(z, z)), sum_y), Mul(Mul(Mul(Mul(z, z), z), sum_2), sum_z))

\* the delta(n, y, z) of the single-party protocol: it leaves out the sum
\* over the parties, and differs from delta(n, m, y, z) when m > 1
delta_single_party(n, m, y, z) ==
    LET sum_y == sum_of_powers(y, n * m)
        sum_2 == sum_of_powers(FromU64(2), n)
    IN  Sub(Mul(Sub(z, Mul(z, z)), sum_y), Mul(Mul(Mul(z, z), z), sum_2))

\* delta(n, m, y, z)
delta(n, m, y, z) ==
    LET sum_y == sum_of_powers(y, n * m)
        sum_2 == sum_of_powers(FromU64(2), n)
        sum_z == sum_of_powers(z, m)
    IN  Sub(Mul(Sub(z, Mul(z, z)), sum_y), Mul(Mul(Mul(Mul(z, z), z), sum_2), sum_z))

\* delta(n, y, z) of the single-party range_proof.rs: the sums are folds
\* over exp_iter
single_delta(n, y, z) ==
    LET two == FromU64(2)
        sum_of_powers_of_y == SumSeq(exp_iter(y, n), n)
        sum_of_powers_of_2 == SumSeq(exp_iter(two, n), n)
        zz == Mul(z, z)
    IN  Sub(Mul(Sub(z, zz), sum_of_powers_of_y), Mul(Mul(z, zz), sum_of_powers_of_2))

\* delta(n, m, y, z) of aggregated_range_proof/messages.rs
messages_delta(n, m, y, z) ==
    LET two == FromU64(2)
        sum_of_powers_of_y == SumSeq(exp_iter(y, n * m), n * m)
        sum_of_powers_of_2 == SumSeq(exp_iter(two, n), n)
        sum_of_powers_of_z == SumSeq(exp_iter(z, m), m)
        zz == Mul(z, z)
    IN  Sub(Mul(Sub(z, zz), sum_of_powers_of_y),
            Mul(Mul(Mul(z, zz), sum_of_powers_of_2), sum_of_powers_of_z))

\* the loop of tests::test_delta: power_g += (z - z2) * exp_y - z3 * exp_2,
\* exp_y multiplied by y and exp_2 doubled after each turn
test_delta_power_g(n, y, z) ==
    LET z2 == Mul(z, z)
        z3 == Mul(z2, z)
        exp_y == exp_iter(y, n)
        exp_2 == exp_iter(Add(1, 1), n)
    IN  SumSeq([i \in 1 .. n |-> Sub(Mul(Sub(z, z2), exp_y[i]), Mul(z3, exp_2[i]))], n)

(***************************************************************************)
(* range_proof.rs: the single-party RangeProof over ProofTranscript, whose *)
(* commit and challenge_scalar take no label.                              *)
(***************************************************************************)
\* ProofTranscript::commit(bytes)
proof_transcript_commit(t, data) == commit_bytes(t, "", data)

\* ProofTranscript::challenge_scalar(): the transcript after the draw
proof_transcript_challenge(t) == challenge_transcript(t, "")

\* ProofTranscript::challenge_scalar(): the scalar drawn
proof_transcript_challenge_scalar(t, oracle) == challenge_value(t, "", oracle)

\* generate_proof up to S: V, the blinding scalars, A from the bit loop
\* (-H[i], replaced by G[i] when the bit is 1, added to A), and S
generate_proof_commitments(rng, n, v, v_blinding) ==
    LET G == gens_G(n, 1)
        H == gens_H(n, 1)
        a_blinding == RandomAt(rng.seed, rng.ctr)
        s_blinding == RandomAt(rng.seed, rng.ctr + 1)
        s_L == random_vec(rng, 2, n)
        s_R == random_vec(rng, 2 + n, n)
    IN  [V |-> multiscalar_mul(<<FromU64(v), v_blinding>>, <<B, B_blinding>>),
         A |-> multiscalar_mul(
                   <<a_blinding>> \o [i \in 1 .. n |-> 1],
                   <<B_blinding>> \o [i \in 1 .. n |->
                                        IF Bit(v, i - 1) = 1 THEN G[i]
                                        ELSE PMul(Neg(1), H[i])]),
         S |-> multiscalar_mul(<<s_blinding>> \o s_L \o s_R, <<B_blinding>> \o G \o H),
         a_blinding |-> a_blinding, s_blinding |-> s_blinding,
         s_L |-> s_L, s_R |-> s_R]

\* generate_proof: commit V, A, S and draw y, z
generate_proof_draw_yz(t, V, A, S, oracle) ==
    LET t1 == proof_transcript_commit(
                  proof_transcript_commit(
                      proof_transcript_commit(t, compress(V)), compress(A)), compress(S))
        t2 == proof_transcript_challenge(t1)
    IN  [transcript |-> proof_transcript_challenge(t2),
         y |-> proof_transcript_challenge_scalar(t1, oracle),
         z |-> proof_transcript_challenge_scalar(t2, oracle)]

\* generate_proof: commit T_1, T_2 and draw x
generate_proof_draw_x(t, T_1, T_2, oracle) ==
    LET t1 == proof_transcript_commit(proof_transcript_commit(t, compress(T_1)),
                                      compress(T_2))
    IN  [transcript |-> proof_transcript_challenge(t1),
         x |-> proof_transcript_challenge_scalar(t1, oracle)]

\* generate_proof: commit t_x, t_x_blinding, e_blinding and draw w
generate_proof_draw_w(t, t_x, t_x_blinding, e_blinding, oracle) ==
    LET t1 == proof_transcript_commit(
                  proof_transcript_commit(
                      proof_transcript_commit(t, scalar_bytes(t_x)),
                      scalar_bytes(t_x_blinding)),
                  scalar_bytes(e_blinding))
    IN  [transcript |-> proof_transcript_challenge(t1),
         w |-> proof_transcript_challenge_scalar(t1, oracle)]

\* the loop of generate_proof that fills l_poly and r_poly, and t_poly
generate_proof_polys(n, v, s_L, s_R, y, z) ==
    LET zz == Mul(z, z)
        exp_y == exp_iter(y, n)
        exp_2 == exp_iter(FromU64(2), n)
        a_L == [i \in 1 .. n |-> FromU64(Bit(v, i - 1))]
        a_R == [i \in 1 .. n |-> Sub(a_L[i], 1)]
        l_poly == << [i \in 1 .. n |-> Sub(a_L[i], z)], s_L >>
        r_poly == << [i \in 1 .. n |-> Add(Mul(exp_y[i], Add(a_R[i], z)), Mul(zz, exp_2[i]))],
                     [i \in 1 .. n |-> Mul(exp_y[i], s_R[i])] >>
    IN  [l_poly |-> l_poly, r_poly |-> r_poly, t_poly |-> poly_inner_product(l_poly, r_poly)]

\* generate_proof from the draw of w on: Q, the IPA, the RangeProof; with
\* the proof, the transcript after the call and the challenges used
generate_proof_ipp(n, oracle, cm, yz, polys, T, xx, sc, rw) ==
    LET H == gens_H(n, 1)
        exp_y_inv == exp_iter(Inv(yz.y), n)
        ipa == ipa_create(rw.transcript, oracle, PMul(rw.w, B), gens_G(n, 1),
                          [i \in 1 .. n |-> PMul(exp_y_inv[i], H[i])],
                          vecpoly_eval(polys.l_poly, xx.x),
                          vecpoly_eval(polys.r_poly, xx.x))
    IN  [proof |-> [V |-> cm.V, A |-> cm.A, S |-> cm.S, T_1 |-> T.T_1, T_2 |-> T.T_2,
                    t_x |-> sc.t_x, t_x_blinding |-> sc.t_x_blinding,
                    e_blinding |-> sc.e_blinding, ipp_proof |-> ipa.proof],
         transcript |-> ipa.transcript,
         challenges |-> [y |-> yz.y, z |-> yz.z, x |-> xx.x, w |-> rw.w]]

\* generate_proof from the draw of x on: t_x, t_x_blinding, e_blinding
generate_proof_scalars(n, v_blinding, oracle, cm, yz, polys, T, xx) ==
    LET t_poly == polys.t_poly
        t_x == Add(t_poly[1], Mul(xx.x, Add(t_poly[2], Mul(xx.x, t_poly[3]))))
        t_x_blinding ==
            Add(Mul(Mul(yz.z, yz.z), v_blinding),
                Mul(xx.x, Add(T.t_1_blinding, Mul(xx.x, T.t_2_blinding))))
        e_blinding == Add(cm.a_blinding, Mul(xx.x, cm.s_blinding))
    IN  generate_proof_ipp(n, oracle, cm, yz, polys, T, xx,
                           [t_x |-> t_x, t_x_blinding |-> t_x_blinding,
                            e_blinding |-> e_blinding],
                           generate_proof_draw_w(xx.transcript, t_x, t_x_blinding, e_blinding,
                                           oracle))

\* a prover that commits T_2 before T_1
generate_proof_T_swapped(n, v_blinding, oracle, cm, yz, polys, T) ==
    generate_proof_scalars(n, v_blinding, oracle, cm, yz, polys, T,
                           generate_proof_draw_x(yz.transcript, T.T_2, T.T_1, oracle))

\* generate_proof from T_1 and T_2 on
generate_proof_T(n, v_blinding, oracle, cm, yz, polys, T) ==
    generate_proof_scalars(n, v_blinding, oracle, cm, yz, polys, T,
                           generate_proof_draw_x(yz.transcript, T.T_1, T.T_2, oracle))

\* generate_proof from the polynomials on: the blindings of T_1 and T_2
generate_proof_polys_on(rng, n, v_blinding, oracle, cm, yz, polys) ==
    LET t_1_blinding == RandomAt(rng.seed, rng.ctr + 2 + 2 * n)
        t_2_blinding == RandomAt(rng.seed, rng.ctr + 3 + 2 * n)
    IN  generate_proof_T(n, v_blinding, oracle, cm, yz, polys,
            [T_1 |-> multiscalar_mul(<<polys.t_poly[2], t_1_blinding>>, <<B, B_blinding>>),
             T_2 |-> multiscalar_mul(<<polys.t_poly[3], t_2_blinding>>, <<B, B_blinding>>),
             t_1_blinding |-> t_1_blinding, t_2_blinding |-> t_2_blinding])

\* generate_proof from the draw of y and z on
generate_proof_yz(rng, n, v, v_blinding, oracle, cm, yz) ==
    generate_proof_polys_on(rng, n, v_blinding, oracle, cm, yz,
                            generate_proof_polys(n, v, cm.s_L, cm.s_R, yz.y, yz.z))

\* generate_proof from the commitments on
generate_proof_S(t, rng, n, v, v_blinding, oracle, cm) ==
    generate_proof_yz(rng, n, v, v_blinding, oracle, cm,
                      generate_proof_draw_yz(t, cm.V, cm.A, cm.S, oracle))

\* RangeProof::generate_proof of range_proof.rs
generate_proof(t, rng, n, v, v_blinding, oracle) ==
    generate_proof_S(t, rng, n, v, v_blinding, oracle,
                     generate_proof_commitments(rng, n, v, v_blinding))

\* the single-party verify: commit V, A, S and draw y, z
single_verify_replay_yz(t, V, A, S, oracle) ==
    LET t1 == proof_transcript_commit(
                  proof_transcript_commit(
                      proof_transcript_commit(t, compress(V)), compress(A)), compress(S))
        t2 == proof_transcript_challenge(t1)
    IN  [transcript |-> proof_transcript_challenge(t2),
         y |-> proof_transcript_challenge_scalar(t1, oracle),
         z |-> proof_transcript_challenge_scalar(t2, oracle)]

\* the single-party verify: commit T_1, T_2 and draw x
single_verify_replay_x(t, T_1, T_2, oracle) ==
    LET t1 == proof_transcript_commit(proof_transcript_commit(t, compress(T_1)),
                                      compress(T_2))
    IN  [transcript |-> proof_transcript_challenge(t1),
         x |-> proof_transcript_challenge_scalar(t1, oracle)]

\* the single-party verify: commit t_x, t_x_blinding, e_blinding and draw w
single_verify_replay_w(t, t_x, t_x_blinding, e_blinding, oracle) ==
    LET t1 == proof_transcript_commit(
                  proof_transcript_commit(
                      proof_transcript_commit(t, scalar_bytes(t_x)),
                      scalar_bytes(t_x_blinding)),
                  scalar_bytes(e_blinding))
    IN  [transcript |-> proof_transcript_challenge(t1),
         w |-> proof_transcript_challenge_scalar(t1, oracle)]

\* the end of the single-party verify: the multiscalar multiplication and
\* its test
single_verify_mega_check(self, c, n, yz, xx, rw, vs) ==
    LET z == yz.z
        zz == Mul(z, z)
        minus_z == Neg(z)
        s == vs.s
        s_inv == Reverse(s)
        a == self.ipp_proof.a
        b == self.ipp_proof.b
        exp_2 == exp_iter(FromU64(2), Len(s))
        exp_y_inv == exp_iter(Inv(yz.y), Len(s))
        g == [i \in 1 .. Len(s) |-> Sub(minus_z, Mul(a, s[i]))]
        h == [i \in 1 .. Len(s) |->
                Add(z, Mul(exp_y_inv[i], Sub(Mul(zz, exp_2[i]), Mul(b, s_inv[i]))))]
        mega_check ==
            multiscalar_mul(
                <<1, xx.x, Mul(c, zz), Mul(c, xx.x), Mul(Mul(c, xx.x), xx.x),
                  Sub(Neg(self.e_blinding), Mul(c, self.t_x_blinding)),
                  Add(Mul(rw.w, Sub(self.t_x, Mul(a, b))),
                      Mul(c, Sub(single_delta(n, yz.y, z), self.t_x)))>>
                    \o g \o h \o vs.x_sq \o vs.x_inv_sq,
                <<self.A, self.S, self.V, self.T_1, self.T_2, B_blinding, B>>
                    \o gens_G(n, 1) \o gens_H(n, 1)
                    \o [k \in 1 .. Len(self.ipp_proof.L_vec) |->
                           decompress(self.ipp_proof.L_vec[k])[1]]
                    \o [k \in 1 .. Len(self.ipp_proof.R_vec) |->
                           decompress(self.ipp_proof.R_vec[k])[1]])
    IN  [result |-> IF is_identity(mega_check) THEN "Ok" ELSE "Err",
         transcript |-> vs.transcript,
         challenges |-> [y |-> yz.y, z |-> yz.z, x |-> xx.x, w |-> rw.w]]

\* the single-party verify from the draw of w on: c from the RNG, then the
\* IPA's verification_scalars
single_verify_w(self, c, n, oracle, yz, xx, rw) ==
    single_verify_mega_check(self, c, n, yz, xx, rw,
                             verification_scalars(self.ipp_proof, rw.transcript, oracle))

\* the single-party verify from the draw of x on
single_verify_x(self, c, n, oracle, yz, xx) ==
    single_verify_w(self, c, n, oracle, yz, xx,
                    single_verify_replay_w(xx.transcript, self.t_x, self.t_x_blinding,
                                    self.e_blinding, oracle))

\* the single-party verify from the draw of y and z on
single_verify_yz(self, c, n, oracle, yz) ==
    single_verify_x(self, c, n, oracle, yz,
                    single_verify_replay_x(yz.transcript, self.T_1, self.T_2, oracle))

\* RangeProof::verify of range_proof.rs, c being what the RNG gives
single_verify(self, t, c, n, oracle) ==
    single_verify_yz(self, c, n, oracle,
                     single_verify_replay_yz(t, self.V, self.A, self.S, oracle))

\* the argument checks of RangeProof::verify
verify_validate(gens, n, m) ==
    IF ~ValidBitsize(n) THEN "InvalidBitsize"
    ELSE IF gens.gens_capacity < n THEN "InvalidGeneratorsLength"
    ELSE IF gens.party_capacity < m THEN "InvalidGeneratorsLength"
    ELSE "Ok"

\* a replay that appends S before A
verify_replay_S_first(self, value_commitments, t, n, oracle) ==
    LET m == Len(value_commitments)
        RECURSIVE commit_Vs(_)
        commit_Vs(k) ==
            IF k = 0 THEN rangeproof_domain_sep(t, n, m)
            ELSE commit_point(commit_Vs(k - 1), "V", compress(value_commitments[k]))
        t1 == commit_point(commit_point(commit_Vs(m), "S", self.S), "A", self.A)
        y == challenge_value(t1, "y", oracle)
        t2 == challenge_transcript(t1, "y")
        z == challenge_value(t2, "z", oracle)
        t3 == challenge_transcript(t2, "z")
        t4 == commit_point(commit_point(t3, "T_1", self.T_1), "T_2", self.T_2)
        xx == challenge_value(t4, "x", oracle)
        t5 == challenge_transcript(t4, "x")
        t6 == commit_scalar(commit_scalar(commit_scalar(t5, "t_x", self.t_x),
                                          "t_x_blinding", self.t_x_blinding),
                            "e_blinding", self.e_blinding)
        w == challenge_value(t6, "w", oracle)
    IN  [transcript |-> challenge_transcript(t6, "w"), y |-> y, z |-> z, x |-> xx, w |-> w]

\* the transcript of RangeProof::verify up to the challenge w
verify_replay(self, value_commitments, t, n, oracle) ==
    LET m == Len(value_commitments)
        RECURSIVE commit_Vs(_)
        commit_Vs(k) ==
            IF k = 0 THEN rangeproof_domain_sep(t, n, m)
            ELSE commit_point(commit_Vs(k - 1), "V", compress(value_commitments[k]))
        t1 == commit_point(commit_point(commit_Vs(m), "A", self.A), "S", self.S)
        y == challenge_value(t1, "y", oracle)
        t2 == challenge_transcript(t1, "y")
        z == challenge_value(t2, "z", oracle)
        t3 == challenge_transcript(t2, "z")
        t4 == commit_point(commit_point(t3, "T_1", self.T_1), "T_2", self.T_2)
        xx == challenge_value(t4, "x", oracle)
        t5 == challenge_transcript(t4, "x")
        t6 == commit_scalar(commit_scalar(commit_scalar(t5, "t_x", self.t_x),
                                          "t_x_blinding", self.t_x_blinding),
                            "e_blinding", self.e_blinding)
        w == challenge_value(t6, "w", oracle)
    IN  [transcript |-> challenge_transcript(t6, "w"), y |-> y, z |-> z, x |-> xx, w |-> w]

\* scalars of verify whose h pairs s with the powers of 1/y without
\* reversing it
verify_scalars_s_unreversed(self, m, c, n, ch, vs) ==
    LET z == ch.z
        zz == Mul(z, z)
        s == vs.s
        a == self.ipp_proof.a
        b == self.ipp_proof.b
        powers_of_2 == exp_iter(FromU64(2), n)
        exp_z == exp_iter(z, m)
        exp_y_inv == exp_iter(Inv(ch.y), Min(Len(s), n * m))
    IN  <<1, ch.x, Mul(c, ch.x), Mul(Mul(c, ch.x), ch.x)>>
            \o vs.x_sq \o vs.x_inv_sq
            \o <<Sub(Neg(self.e_blinding), Mul(c, self.t_x_blinding)),
                 Add(Mul(ch.w, Sub(self.t_x, Mul(a, b))),
                     Mul(c, Sub(delta(n, m, ch.y, z), self.t_x)))>>
            \o [i \in 1 .. Len(s) |-> Sub(Neg(z), Mul(a, s[i]))]
            \o [i \in 1 .. Min(Len(s), n * m) |->
                   Add(z, Mul(exp_y_inv[i],
                              Sub(Mul(zz, Mul(powers_of_2[((i - 1) % n) + 1],
                                              exp_z[((i - 1) \div n) + 1])),
                                  Mul(b, s[i]))))]
            \o [j \in 1 .. m |-> Mul(Mul(c, zz), exp_z[j])]

\* the scalars of the multiscalar multiplication of verify, given the
\* challenges ch of the replay and the verification scalars vs of the IPA
verify_scalars(self, m, c, n, ch, vs) ==
    LET y == ch.y
        z == ch.z
        xx == ch.x
        w == ch.w
        zz == Mul(z, z)
        minus_z == Neg(z)
        s == vs.s
        s_inv == Reverse(s)
        a == self.ipp_proof.a
        b == self.ipp_proof.b
        powers_of_2 == exp_iter(FromU64(2), n)
        exp_z == exp_iter(z, m)
        concat_z_and_2 ==
            [k \in 1 .. n * m |-> Mul(powers_of_2[((k - 1) % n) + 1], exp_z[((k - 1) \div n) + 1])]
        exp_y_inv == exp_iter(Inv(y), Min(Len(s), n * m))
        g == [i \in 1 .. Len(s) |-> Sub(minus_z, Mul(a, s[i]))]
        h == [i \in 1 .. Min(Len(s), n * m) |->
                Add(z, Mul(exp_y_inv[i],
                           Sub(Mul(zz, concat_z_and_2[i]), Mul(b, s_inv[i]))))]
        value_commitment_scalars == [j \in 1 .. m |-> Mul(Mul(c, zz), exp_z[j])]
        basepoint_scalar ==
            Add(Mul(w, Sub(self.t_x, Mul(a, b))),
                Mul(c, Sub(delta(n, m, y, z), self.t_x)))
    IN  <<1, xx, Mul(c, xx), Mul(Mul(c, xx), xx)>>
            \o vs.x_sq \o vs.x_inv_sq
            \o <<Sub(Neg(self.e_blinding), Mul(c, self.t_x_blinding)), basepoint_scalar>>
            \o g \o h \o value_commitment_scalars

\* the points of the multiscalar multiplication of verify, in the same order
verify_points(self, value_commitments, n) ==
    LET m == Len(value_commitments)
    IN  <<decompress(self.A), decompress(self.S),
          decompress(self.T_1), decompress(self.T_2)>>
            \o [k \in 1 .. Len(self.ipp_proof.L_vec) |-> decompress(self.ipp_proof.L_vec[k])]
            \o [k \in 1 .. Len(self.ipp_proof.R_vec) |-> decompress(self.ipp_proof.R_vec[k])]
            \o <<Some(B_blinding), Some(B)>>
            \o [k \in 1 .. n * m |-> Some(gens_G(n, m)[k])]
            \o [k \in 1 .. n * m |-> Some(gens_H(n, m)[k])]
            \o [j \in 1 .. m |-> Some(value_commitments[j])]

\* RistrettoPoint::optional_multiscalar_mul: None when a point is None
optional_multiscalar_mul(ss, ps) ==
    IF \E k \in 1 .. Len(ps) : ps[k] = None
    THEN None
    ELSE Some(multiscalar_mul(ss, [k \in 1 .. Len(ps) |-> ps[k][1]]))

\* an end of verify that has an error of its own for a point that does not
\* decompress
verify_result_telling(mega_check, t, ch) ==
    [result |-> IF mega_check = None THEN "DecompressionError"
                ELSE IF is_identity(mega_check[1]) THEN "Ok"
                ELSE "VerificationError",
     transcript |-> t,
     drawn |-> 1,
     challenges |-> Some([y |-> ch.y, z |-> ch.z, x |-> ch.x, w |-> ch.w])]

\* an end of verify that only asks for every point to decompress
verify_result_unchecked(mega_check, t, ch) ==
    [result |-> IF mega_check = None THEN "VerificationError" ELSE "Ok",
     transcript |-> t,
     drawn |-> 1,
     challenges |-> Some([y |-> ch.y, z |-> ch.z, x |-> ch.x, w |-> ch.w])]

\* the end of verify: Ok when the multiscalar multiplication is the identity;
\* with the result, the transcript after the call, the number of scalars
\* drawn from the RNG and the challenges that were recomputed
verify_result(mega_check, t, ch) ==
    [result |-> IF mega_check = None THEN "VerificationError"
                ELSE IF is_identity(mega_check[1]) THEN "Ok"
                ELSE "VerificationError",
     transcript |-> t,
     drawn |-> 1,
     challenges |-> Some([y |-> ch.y, z |-> ch.z, x |-> ch.x, w |-> ch.w])]

\* verify from the verification scalars of the IPA on
verify_mega_check(self, value_commitments, c, n, ch, vs) ==
    verify_result(
        optional_multiscalar_mul(
            verify_scalars(self, Len(value_commitments), c, n, ch, vs),
            verify_points(self, value_commitments, n)),
        vs.transcript, ch)

\* a verify that takes the batching scalar from the transcript
verify_checked_c_from_transcript(self, value_commitments, c, n, oracle, ch) ==
    verify_mega_check(self, value_commitments,
                      challenge_value(ch.transcript, "c", oracle), n, ch,
                      verification_scalars(self.ipp_proof,
                                           challenge_transcript(ch.transcript, "c"), oracle))

\* verify from the draw of c on
verify_checked(self, value_commitments, c, n, oracle, ch) ==
    verify_mega_check(self, value_commitments, c, n, ch,
                      verification_scalars(self.ipp_proof, ch.transcript, oracle))

\* a verify that appends the domain separator before it checks its arguments
verify_domain_sep_first(self, value_commitments, gens, t, c, n, oracle) ==
    IF verify_validate(gens, n, Len(value_commitments)) # "Ok"
    THEN [result |-> verify_validate(gens, n, Len(value_commitments)),
          transcript |-> rangeproof_domain_sep(t, n, Len(value_commitments)),
          drawn |-> 0, challenges |-> None]
    ELSE verify_checked(self, value_commitments, c, n, oracle,
                        verify_replay(self, value_commitments, t, n, oracle))

\* RangeProof::verify with the batching scalar c drawn from the RNG: the
\* result, the transcript after the call and the number of scalars drawn
verify(self, value_commitments, gens, t, c, n, oracle) ==
    IF verify_validate(gens, n, Len(value_commitments)) # "Ok"
    THEN [result |-> verify_validate(gens, n, Len(value_commitments)),
          transcript |-> t, drawn |-> 0, challenges |-> None]
    ELSE verify_checked(self, value_commitments, c, n, oracle,
                        verify_replay(self, value_commitments, t, n, oracle))

\* a to_bytes that writes e_blinding before t_x_blinding
to_bytes_swapped(self) ==
    self.A \o self.S \o self.T_1 \o self.T_2
        \o scalar_bytes(self.t_x) \o scalar_bytes(self.e_blinding)
        \o scalar_bytes(self.t_x_blinding)
        \o ipp_to_bytes(self.ipp_proof)

\* RangeProof::to_bytes
to_bytes(self) ==
    self.A \o self.S \o self.T_1 \o self.T_2
        \o scalar_bytes(self.t_x) \o scalar_bytes(self.t_x_blinding)
        \o scalar_bytes(self.e_blinding)
        \o ipp_to_bytes(self.ipp_proof)

\* a from_bytes that takes e_blinding as zero when its bytes are not canonical
from_bytes_lenient(slice) ==
    IF Len(slice) % ElemBytes # 0 THEN FormatError
    ELSE IF Len(slice) < 7 * ElemBytes THEN FormatError
    ELSE LET t_x == from_canonical_bytes(read32(slice, 4))
             t_x_blinding == from_canonical_bytes(read32(slice, 5))
             e_blinding == from_canonical_bytes(read32(slice, 6))
             ipp_proof == ipp_from_bytes(SubSeq(slice, 7 * ElemBytes + 1, Len(slice)))
         IN  IF t_x = None THEN FormatError
             ELSE IF t_x_blinding = None THEN FormatError
             ELSE IF ~ipp_proof.ok THEN FormatError
             ELSE Ok([A |-> read32(slice, 0), S |-> read32(slice, 1),
                      T_1 |-> read32(slice, 2), T_2 |-> read32(slice, 3),
                      t_x |-> t_x[1], t_x_blinding |-> t_x_blinding[1],
                      e_blinding |-> IF e_blinding = None THEN 0 ELSE e_blinding[1],
                      ipp_proof |-> ipp_proof.val])

\* RangeProof::from_bytes
from_bytes(slice) ==
    IF Len(slice) % ElemBytes # 0 THEN FormatError
    ELSE IF Len(slice) < 7 * ElemBytes THEN FormatError
    ELSE LET t_x == from_canonical_bytes(read32(slice, 4))
             t_x_blinding == from_canonical_bytes(read32(slice, 5))
             e_blinding == from_canonical_bytes(read32(slice, 6))
             ipp_proof == ipp_from_bytes(SubSeq(slice, 7 * ElemBytes + 1, Len(slice)))
         IN  IF t_x = None THEN FormatError
             ELSE IF t_x_blinding = None THEN FormatError
             ELSE IF e_blinding = None THEN FormatError
             ELSE IF ~ipp_proof.ok THEN FormatError
             ELSE Ok([A |-> read32(slice, 0), S |-> read32(slice, 1),
                      T_1 |-> read32(slice, 2), T_2 |-> read32(slice, 3),
                      t_x |-> t_x[1], t_x_blinding |-> t_x_blinding[1],
                      e_blinding |-> e_blinding[1], ipp_proof |-> ipp_proof.val])

(***************************************************************************)
(* range_proof::dealer                                                     *)
(***************************************************************************)
\* the sum of the first k points of ps
PSum(ps, k) == multiscalar_mul([j \in 1 .. k |-> 1], ps)

RECURSIVE Concat(_, _)
Concat(vs, k) == IF k = 0 THEN <<>> ELSE Concat(vs, k - 1) \o vs[k]

\* Dealer::new: the argument checks, then the domain separator
dealer_new(gens, n, m, t) ==
    IF ~ValidBitsize(n) THEN Err("InvalidBitsize")
    ELSE IF gens.gens_capacity < n THEN Err("InvalidGeneratorsLength")
    ELSE IF gens.party_capacity < m THEN Err("InvalidGeneratorsLength")
    ELSE Ok(rangeproof_domain_sep(t, n, m))

\* DealerAwaitingValueCommitments::receive_value_commitments
receive_value_commitments(t, oracle, vcs) ==
    LET m == Len(vcs)
        RECURSIVE commit_Vs(_)
        commit_Vs(k) ==
            IF k = 0 THEN t ELSE commit_point(commit_Vs(k - 1), "V", compress(vcs[k].V))
        A == PSum([j \in 1 .. m |-> vcs[j].A], m)
        S == PSum([j \in 1 .. m |-> vcs[j].S], m)
        t1 == commit_point(commit_point(commit_Vs(m), "A", compress(A)), "S", compress(S))
        y == challenge_value(t1, "y", oracle)
        t2 == challenge_transcript(t1, "y")
        z == challenge_value(t2, "z", oracle)
    IN  [transcript |-> challenge_transcript(t2, "z"), A |-> A, S |-> S,
         value_challenge |-> [y |-> y, z |-> z]]

\* DealerAwaitingPolyCommitments::receive_poly_commitments
receive_poly_commitments(t, oracle, pcs) ==
    LET m == Len(pcs)
        T_1 == PSum([j \in 1 .. m |-> pcs[j].T_1], m)
        T_2 == PSum([j \in 1 .. m |-> pcs[j].T_2], m)
        t1 == commit_point(commit_point(t, "T_1", compress(T_1)), "T_2", compress(T_2))
    IN  [transcript |-> challenge_transcript(t1, "x"), T_1 |-> T_1, T_2 |-> T_2,
         poly_challenge |-> [x |-> challenge_value(t1, "x", oracle)]]

\* the dealer's check of the share of party j (from 0): t_x = <l, r>, the
\* commitment to l and r, and the commitment to t(x)
verify_share(share, n, j, vc, pc) ==
    LET y == vc.y
        z == vc.z
        xx == pc.x
        zz == Mul(z, z)
        z_j == Pow(z, j)
        y_jn == Pow(y, j * n)
        y_inv == Inv(y)
        exp_y_inv == [i \in 1 .. n |-> Mul(Pow(y_inv, j * n), Pow(y_inv, i - 1))]
        g == [i \in 1 .. n |-> Sub(Neg(z), share.l_vec[i])]
        h == [i \in 1 .. n |->
                Add(z, Mul(exp_y_inv[i],
                           Sub(Mul(Mul(zz, z_j), Pow(2, i - 1)), share.r_vec[i])))]
        P_check == multiscalar_mul(
                       <<1, xx, Neg(share.e_blinding)>> \o g \o h,
                       <<share.value_commitment.A, share.value_commitment.S, B_blinding>>
                           \o [i \in 1 .. n |-> GenG(j, i - 1)]
                           \o [i \in 1 .. n |-> GenH(j, i - 1)])
        delta_j == Sub(Mul(Mul(Sub(z, zz), y_jn), sum_of_powers(y, n)),
                       Mul(Mul(Mul(z, zz), z_j), sum_of_powers(FromU64(2), n)))
        t_check == multiscalar_mul(
                       <<Mul(zz, z_j), xx, Mul(xx, xx),
                         Sub(delta_j, share.t_x), Neg(share.t_x_blinding)>>,
                       <<share.value_commitment.V, share.poly_commitment.T_1,
                         share.poly_commitment.T_2, B, B_blinding>>)
    IN  /\ share.t_x = inner_product(share.l_vec, share.r_vec)
        /\ is_identity(P_check)
        /\ is_identity(t_check)

\* the positions (from 0) of the shares that fail verify_share, in order
RECURSIVE bad_shares(_, _, _, _, _)
bad_shares(shares, n, vc, pc, k) ==
    IF k = 0 THEN <<>>
    ELSE bad_shares(shares, n, vc, pc, k - 1)
             \o (IF verify_share(shares[k], n, k - 1, vc, pc) THEN <<>> ELSE <<k - 1>>)

\* DealerAwaitingProofShares::receive_trusted_shares: the aggregated proof
\* and the transcript after it
receive_trusted_shares(t, oracle, n, d, shares) ==
    LET m == Len(shares)
        t_x == SumSeq([j \in 1 .. m |-> shares[j].t_x], m)
        t_x_blinding == SumSeq([j \in 1 .. m |-> shares[j].t_x_blinding], m)
        e_blinding == SumSeq([j \in 1 .. m |-> shares[j].e_blinding], m)
        t1 == commit_scalar(commit_scalar(commit_scalar(t, "t_x", t_x),
                                          "t_x_blinding", t_x_blinding),
                            "e_blinding", e_blinding)
        w == challenge_value(t1, "w", oracle)
        Q == PMul(w, B)
        exp_y_inv == exp_iter(Inv(d.value_challenge.y), n * m)
        G == gens_G(n, m)
        H == gens_H(n, m)
        Hprime == [i \in 1 .. n * m |-> PMul(exp_y_inv[i], H[i])]
        l_vec == Concat([j \in 1 .. m |-> shares[j].l_vec], m)
        r_vec == Concat([j \in 1 .. m |-> shares[j].r_vec], m)
        ipa == ipa_create(challenge_transcript(t1, "w"), oracle, Q, G, Hprime, l_vec, r_vec)
    IN  [transcript |-> ipa.transcript, w |-> w,
         proof |-> [A |-> compress(d.A), S |-> compress(d.S),
                    T_1 |-> compress(d.T_1), T_2 |-> compress(d.T_2),
                    t_x |-> t_x, t_x_blinding |-> t_x_blinding,
                    e_blinding |-> e_blinding, ipp_proof |-> ipa.proof]]

(***************************************************************************)
(* The runs: RangeProof::prove_multiple ("prove_multiple"), and the        *)
(* parties and the dealer driven one call at a time as aggregation does    *)
(* ("aggregation"); then to_bytes, from_bytes and verify.                  *)
(***************************************************************************)
VARIABLES
    mode,               \* "prove_multiple" or "aggregation"
    n,                  \* the bitsize asked for
    values,             \* the values, u64
    blindings,          \* their blinding scalars
    gens,               \* the capacities of the Generators
    oracle,             \* the hash function of the transcripts
    label,              \* the label the prover's transcript is created with
    pc,                 \* where the run is
    rng,                \* the prover's RNG
    transcript,         \* the prover's transcript
    party,              \* the state of each party
    dealer,             \* what the dealer holds
    value_commitments,  \* the ValueCommitments sent, <<j, message>>
    poly_commitments,   \* the PolyCommitments sent
    proof_shares,       \* the ProofShares sent, with the challenge x they answer
    proved,             \* the result of proving
    wire,               \* the bytes of the proof
    parsed,             \* the result of from_bytes
    verified,           \* the result of verify, its inputs and its transcript
    freed,              \* the memory of the party states consumed so far
    ops,                \* the operations of each bit loop run so far
    single              \* the run of a unit test or of the single-party variant

vars == <<mode, n, values, blindings, gens, oracle, label, pc, rng, transcript,
          party, dealer, value_commitments, poly_commitments, proof_shares,
          proved, wire, parsed, verified, freed, ops, single>>

\* what no step of the aggregated protocol changes
inputs == <<mode, n, values, blindings, gens, oracle, label, single>>

\* the inputs of the runs
Bitsizes == {7, 8, 16}
InRange == {5, 255}
OutOfRange == {300}
ValueSet == InRange \cup OutOfRange
ValueLists == {<<v>> : v \in ValueSet} \cup {<<v1, v2>> : v1 \in ValueSet, v2 \in ValueSet}
BlindingLists == {<<2>>, <<2, 9>>}
Labels == {1, 2}
\* what the verifier's RNG gives for c
VerifierDraws == {0, 1}
GensSet == {[gens_capacity |-> GensCapacity, party_capacity |-> c] : c \in 1 .. PartyCapacity}

m == Len(values)
Parties == 1 .. m

NoParty == [stage |-> "None"]
Nothing == [ok |-> FALSE, err |-> "None"]
NoSingle == [pc |-> "unused"]

Init ==
    /\ mode \in {"prove_multiple", "aggregation"}
    /\ n \in Bitsizes
    /\ values \in ValueLists
    /\ blindings \in BlindingLists
    /\ mode = "aggregation" => Len(values) = Len(blindings)
    /\ gens \in GensSet
    /\ oracle \in 0 .. (NumOracles - 1)
    /\ label = 1
    /\ pc = "start"
    /\ rng \in {[seed |-> sd, ctr |-> 0] : sd \in 0 .. (NumSeeds - 1)}
    /\ transcript = transcript_new(label)
    /\ party = <<>>
    /\ dealer = [stage |-> "None"]
    /\ value_commitments = <<>>
    /\ poly_commitments = <<>>
    /\ proof_shares = <<>>
    /\ proved = Nothing
    /\ wire = <<>>
    /\ parsed = Nothing
    /\ verified = Nothing
    /\ freed = <<>>
    /\ ops = <<>>
    /\ single = NoSingle

\* argument checks that look at the bitsize before the blinding factors
prove_multiple_validate_bitsize_first(vals, blinds, g, bitsize) ==
    IF ~ValidBitsize(bitsize) THEN "InvalidBitsize"
    ELSE IF Len(vals) # Len(blinds) THEN "WrongNumBlindingFactors"
    ELSE IF g.gens_capacity < bitsize THEN "InvalidGeneratorsLength"
    ELSE IF g.party_capacity < Len(vals) THEN "InvalidGeneratorsLength"
    ELSE "Ok"

\* the argument checks of RangeProof::prove_multiple
prove_multiple_validate(vals, blinds, g, bitsize) ==
    IF Len(vals) # Len(blinds) THEN "WrongNumBlindingFactors"
    ELSE IF ~ValidBitsize(bitsize) THEN "InvalidBitsize"
    ELSE IF g.gens_capacity < bitsize THEN "InvalidGeneratorsLength"
    ELSE IF g.party_capacity < Len(vals) THEN "InvalidGeneratorsLength"
    ELSE "Ok"

\* p.assign_position(j, rng) for the first k parties in order, the RNG
\* going from each to the next
RECURSIVE assign_positions(_, _, _)
assign_positions(parties, k, rng0) ==
    IF k = 0 THEN [states |-> <<>>, msgs |-> <<>>, rng |-> rng0]
    ELSE LET prev == assign_positions(parties, k - 1, rng0)
             r == assign_position(parties[k], k - 1, prev.rng)
         IN  [states |-> Append(prev.states, r.state),
              msgs |-> Append(prev.msgs, r.msg), rng |-> r.rng]

\* p.apply_challenge(&value_challenge, rng) for the first k parties in order
RECURSIVE apply_value_challenges(_, _, _, _)
apply_value_challenges(states, vc, k, rng0) ==
    IF k = 0 THEN [states |-> <<>>, msgs |-> <<>>, rng |-> rng0]
    ELSE LET prev == apply_value_challenges(states, vc, k - 1, rng0)
             r == apply_value_challenge(states[k], vc, prev.rng)
         IN  [states |-> Append(prev.states, r.state),
              msgs |-> Append(prev.msgs, r.msg), rng |-> r.rng]

\* prove_multiple from receive_poly_commitments on
prove_multiple_shares(orc, bitsize, rvc, rpc, states) ==
    receive_trusted_shares(
        rpc.transcript, orc, bitsize,
        [A |-> rvc.A, S |-> rvc.S, value_challenge |-> rvc.value_challenge,
         T_1 |-> rpc.T_1, T_2 |-> rpc.T_2, poly_challenge |-> rpc.poly_challenge],
        [j \in 1 .. Len(states) |-> apply_poly_challenge(states[j], rpc.poly_challenge)])

\* prove_multiple from the parties' apply_challenge(&value_challenge) on
prove_multiple_polys(orc, bitsize, rvc, applied) ==
    prove_multiple_shares(orc, bitsize, rvc,
                          receive_poly_commitments(rvc.transcript, orc, applied.msgs),
                          applied.states)

\* prove_multiple from receive_value_commitments on
prove_multiple_values(orc, bitsize, rvc, assigned) ==
    prove_multiple_polys(orc, bitsize, rvc,
                         apply_value_challenges(assigned.states, rvc.value_challenge,
                                                Len(assigned.states), assigned.rng))

\* prove_multiple from assign_position on
prove_multiple_parties(t, orc, bitsize, assigned) ==
    prove_multiple_values(orc, bitsize, receive_value_commitments(t, orc, assigned.msgs),
                          assigned)

\* RangeProof::prove_multiple as one call: the Result it returns
prove_multiple(g, t, rng0, vals, blinds, bitsize, orc) ==
    IF prove_multiple_validate(vals, blinds, g, bitsize) # "Ok"
    THEN Err(prove_multiple_validate(vals, blinds, g, bitsize))
    ELSE IF ~dealer_new(g, bitsize, Len(vals), t).ok
    THEN dealer_new(g, bitsize, Len(vals), t)
    ELSE Ok(prove_multiple_parties(
                dealer_new(g, bitsize, Len(vals), t).val, orc, bitsize,
                assign_positions([j \in 1 .. Len(vals) |->
                                     party_new(vals[j], blinds[j], bitsize)],
                                 Len(vals), rng0)).proof)

\* prove_multiple up to Party::new: the argument checks, Dealer::new, the
\* parties; in the aggregation tests the parties are created first, and
\* exist when Dealer::new fails
Start ==
    /\ pc = "start"
    /\ LET valid == IF mode = "prove_multiple"
                    THEN prove_multiple_validate(values, blindings, gens, n)
                    ELSE "Ok"
           d == dealer_new(gens, n, m, transcript)
       IN  IF valid # "Ok"
           THEN /\ proved' = Err(valid)
                /\ pc' = "done"
                /\ UNCHANGED <<transcript, party, dealer>>
           ELSE IF ~d.ok
           THEN /\ proved' = d
                /\ pc' = "done"
                /\ party' = [j \in Parties |-> party_new(values[j], blindings[j], n)]
                /\ UNCHANGED <<transcript, dealer>>
           ELSE /\ transcript' = d.val
                /\ dealer' = [stage |-> "AwaitingValueCommitments"]
                /\ party' = [j \in Parties |-> party_new(values[j], blindings[j], n)]
                /\ pc' = "parties"
                /\ UNCHANGED proved
    /\ UNCHANGED <<inputs, rng, value_commitments, poly_commitments, proof_shares,
                   wire, parsed, verified, freed, ops>>

\* parties called in any order
AnyTurn(j, stage) ==
    /\ pc = "parties"
    /\ j \in Parties
    /\ party[j].stage = stage

\* the parties are called in the order of their positions
InTurn(j, stage) ==
    /\ pc = "parties"
    /\ j \in Parties
    /\ party[j].stage = stage
    /\ \A i \in 1 .. (j - 1) : party[i].stage # stage

\* p.assign_position(j, rng), party j + 1 of the model being position j
AssignPosition(j) ==
    /\ InTurn(j, "AwaitingPosition")
    /\ LET r == assign_position(party[j], j - 1, rng)
       IN  /\ party' = [party EXCEPT ![j] = r.state]
           /\ value_commitments' = Append(value_commitments, <<j - 1, r.msg>>)
           /\ rng' = r.rng
    /\ freed' = Append(freed, drop(party[j]))
    /\ ops' = Append(ops, [code |-> "assign_position", v |-> party[j].v, n |-> party[j].n,
                           trace |-> assign_position_ops(party[j].v, party[j].n)])
    /\ UNCHANGED <<inputs, pc, transcript, dealer, poly_commitments, proof_shares,
                   proved, wire, parsed, verified>>

\* dealer.receive_value_commitments(value_commitments)
ReceiveValueCommitments ==
    /\ pc = "parties"
    /\ dealer.stage = "AwaitingValueCommitments"
    /\ Len(value_commitments) = m
    /\ LET r == receive_value_commitments(
                    transcript, oracle, [k \in 1 .. m |-> value_commitments[k][2]])
       IN  /\ transcript' = r.transcript
           /\ dealer' = [stage |-> "AwaitingPolyCommitments", A |-> r.A, S |-> r.S,
                         value_challenge |-> r.value_challenge]
    /\ UNCHANGED <<inputs, pc, rng, party, value_commitments, poly_commitments,
                   proof_shares, proved, wire, parsed, verified, freed, ops>>

\* p.apply_challenge(&value_challenge, rng)
ApplyValueChallenge(j) ==
    /\ InTurn(j, "AwaitingValueChallenge")
    /\ dealer.stage = "AwaitingPolyCommitments"
    /\ LET r == apply_value_challenge(party[j], dealer.value_challenge, rng)
       IN  /\ party' = [party EXCEPT ![j] = r.state]
           /\ poly_commitments' = Append(poly_commitments, <<j - 1, r.msg>>)
           /\ rng' = r.rng
    /\ freed' = Append(freed, drop(party[j]))
    /\ UNCHANGED ops
    /\ UNCHANGED <<inputs, pc, transcript, dealer, value_commitments, proof_shares,
                   proved, wire, parsed, verified>>

\* dealer.receive_poly_commitments(poly_commitments)
ReceivePolyCommitments ==
    /\ pc = "parties"
    /\ dealer.stage = "AwaitingPolyCommitments"
    /\ Len(poly_commitments) = m
    /\ LET r == receive_poly_commitments(
                    transcript, oracle, [k \in 1 .. m |-> poly_commitments[k][2]])
       IN  /\ transcript' = r.transcript
           /\ dealer' = [stage |-> "AwaitingProofShares", A |-> dealer.A, S |-> dealer.S,
                         value_challenge |-> dealer.value_challenge,
                         T_1 |-> r.T_1, T_2 |-> r.T_2,
                         poly_challenge |-> r.poly_challenge]
    /\ UNCHANGED <<inputs, pc, rng, party, value_commitments, poly_commitments,
                   proof_shares, proved, wire, parsed, verified, freed, ops>>

\* p.apply_challenge(&poly_challenge) with the challenge the party is handed
ApplyPolyChallengeWith(j, challenge) ==
    /\ InTurn(j, "AwaitingPolyChallenge")
    /\ dealer.stage = "AwaitingProofShares"
    /\ party' = [party EXCEPT ![j] = [stage |-> "consumed"]]
    /\ freed' = Append(freed, drop(party[j]))
    /\ UNCHANGED ops
    /\ proof_shares' = Append(proof_shares,
                              [j |-> j - 1, x |-> challenge.x,
                               share |-> apply_poly_challenge(party[j], challenge)])
    /\ UNCHANGED <<inputs, pc, rng, transcript, dealer, value_commitments,
                   poly_commitments, proved, wire, parsed, verified>>

\* the dealer's own challenge
ApplyPolyChallenge(j) ==
    /\ dealer.stage = "AwaitingProofShares"
    /\ ApplyPolyChallengeWith(j, dealer.poly_challenge)

\* a malicious dealer hands the party x = 0 (aggregation only)
ApplyZeroChallenge(j) ==
    /\ mode = "aggregation"
    /\ ApplyPolyChallengeWith(j, [x |-> 0])

\* the dealer is consumed; the challenges it drew stay on record
Consumed(d, w) ==
    [stage |-> "consumed", value_challenge |-> d.value_challenge,
     poly_challenge |-> d.poly_challenge, w |-> w]

AllHonestShares ==
    /\ Len(proof_shares) = m
    /\ \A k \in 1 .. m : proof_shares[k].x = dealer.poly_challenge.x

\* dealer.receive_trusted_shares(&proof_shares), the end of prove_multiple
ReceiveTrustedShares ==
    /\ pc = "parties"
    /\ mode = "prove_multiple"
    /\ dealer.stage = "AwaitingProofShares"
    /\ AllHonestShares
    /\ LET r == receive_trusted_shares(transcript, oracle, n, dealer,
                                       [k \in 1 .. m |-> proof_shares[k].share])
       IN  /\ transcript' = r.transcript
           /\ proved' = Ok(r.proof)
           /\ dealer' = Consumed(dealer, Some(r.w))
    /\ pc' = "proved"
    /\ UNCHANGED <<inputs, rng, party, value_commitments, poly_commitments,
                   proof_shares, wire, parsed, verified, freed, ops>>

\* dealer.receive_shares(rng, &proof_shares): the shares are checked first
ReceiveShares ==
    /\ pc = "parties"
    /\ mode = "aggregation"
    /\ dealer.stage = "AwaitingProofShares"
    /\ AllHonestShares
    /\ LET shares == [k \in 1 .. m |-> proof_shares[k].share]
           bad == bad_shares(shares, n, dealer.value_challenge, dealer.poly_challenge, m)
       IN  IF bad # <<>>
           THEN /\ proved' = [ok |-> FALSE, err |-> "MalformedProofShares",
                              bad_shares |-> bad]
                /\ pc' = "done"
                /\ dealer' = Consumed(dealer, None)
                /\ UNCHANGED transcript
           ELSE LET r == receive_trusted_shares(transcript, oracle, n, dealer, shares)
                IN  /\ transcript' = r.transcript
                    /\ proved' = Ok(r.proof)
                    /\ pc' = "proved"
                    /\ dealer' = Consumed(dealer, Some(r.w))
    /\ UNCHANGED <<inputs, rng, party, value_commitments, poly_commitments,
                   proof_shares, wire, parsed, verified, freed, ops>>

\* proof.to_bytes()
ToBytes ==
    /\ pc = "proved"
    /\ wire' = to_bytes(proved.val)
    /\ pc' = "serialized"
    /\ UNCHANGED <<inputs, rng, transcript, party, dealer, value_commitments,
                   poly_commitments, proof_shares, proved, parsed, verified, freed, ops>>

\* the bytes that reach from_bytes are not the bytes of to_bytes: they are
\* cut to k bytes, or k zero bytes are appended, or the byte at pos is set
Tampered(w, how) ==
    IF how[1] = "cut" THEN SubSeq(w, 1, how[2])
    ELSE IF how[1] = "extend" THEN w \o [i \in 1 .. how[2] |-> 0]
    ELSE [w EXCEPT ![how[2]] = how[3]]

\* the lengths the bytes are cut to
CutLengths(w) ==
    {k \in {0, ElemBytes - 1, 6 * ElemBytes, 7 * ElemBytes, 8 * ElemBytes, 9 * ElemBytes,
            Len(w) - 2 * ElemBytes, Len(w) - ElemBytes, Len(w) - 1} : k < Len(w)}

\* the first byte of the points a byte is set in: A and the first L and R
PointPositions == {1, 7 * ElemBytes + 1, 8 * ElemBytes + 1}

\* the first and the last byte of the scalars a byte is set in: t_x,
\* t_x_blinding, e_blinding, and a and b at the end
SetPositions(w) ==
    LET elems == {4, 5, 6, (Len(w) \div ElemBytes) - 2, (Len(w) \div ElemBytes) - 1}
    IN  {e * ElemBytes + 1 : e \in elems} \cup {(e + 1) * ElemBytes : e \in elems}

Tamperings(w) ==
    {<<"cut", k, 0>> : k \in CutLengths(w)}
        \cup {<<"extend", k, 0>> : k \in {1, ElemBytes, 2 * ElemBytes}}
        \cup {<<"set", pos, b>> : pos \in SetPositions(w), b \in {P, 255}}
        \cup {<<"set", pos, 255>> : pos \in PointPositions}

Tamper(how) ==
    /\ pc = "serialized"
    /\ how \in Tamperings(wire)
    /\ wire' = Tampered(wire, how)
    /\ pc' = "tampered"
    /\ UNCHANGED <<inputs, rng, transcript, party, dealer, value_commitments,
                   poly_commitments, proof_shares, proved, parsed, verified, freed, ops>>

\* RangeProof::from_bytes(&bytes)
FromBytes ==
    /\ pc \in {"serialized", "tampered"}
    /\ parsed' = from_bytes(wire)
    /\ pc' = "parsed"
    /\ UNCHANGED <<inputs, rng, transcript, party, dealer, value_commitments,
                   poly_commitments, proof_shares, proved, wire, verified, freed, ops>>

\* the commitments the verifier is given: commit(v_j, blinding_j)
Commitments == [j \in Parties |-> commit(FromU64(values[j]), blindings[j])]

\* what is kept of a call of verify: r of the parsed proof, direct of the
\* proof that was serialized
Verified(r, direct, vlabel, c, vn, vgens) ==
    [ok |-> TRUE, result |-> r.result, transcript |-> r.transcript,
     drawn |-> r.drawn, challenges |-> r.challenges, direct |-> direct.result,
     label |-> vlabel, c |-> c, n |-> vn, gens |-> vgens]

\* proof.verify(&value_commitments, vgens, transcript, rng, vn) of the parsed
\* proof and of the proof itself, on a transcript created with vlabel, the
\* verifier's RNG giving c; the verifier departs from the prover either in
\* its label and RNG or in its bitsize and generators
Verify(vlabel, c, vn, vgens) ==
    /\ pc = "parsed"
    /\ parsed.ok
    /\ (vn = n /\ vgens = gens) \/ (vlabel = label /\ c = 1)
    /\ wire # to_bytes(proved.val) => (vn = n /\ vgens = gens /\ vlabel = label /\ c = 1)
    /\ verified' = Verified(
                        verify(parsed.val, Commitments, vgens, transcript_new(vlabel),
                               c, vn, oracle),
                        verify(proved.val, Commitments, vgens, transcript_new(vlabel),
                               c, vn, oracle),
                        vlabel, c, vn, vgens)
    /\ pc' = "done"
    /\ UNCHANGED <<inputs, rng, transcript, party, dealer, value_commitments,
                   poly_commitments, proof_shares, proved, wire, parsed, freed, ops>>

Next ==
    \/ Start
    \/ \E j \in Parties : AssignPosition(j)
    \/ ReceiveValueCommitments
    \/ \E j \in Parties : ApplyValueChallenge(j)
    \/ ReceivePolyCommitments
    \/ \E j \in Parties : ApplyPolyChallenge(j)
    \/ \E j \in Parties : ApplyZeroChallenge(j)
    \/ ReceiveTrustedShares
    \/ ReceiveShares
    \/ ToBytes
    \/ \E how \in Tamperings(wire) : Tamper(how)
    \/ FromBytes
    \/ \E vlabel \in Labels, c \in VerifierDraws, vn \in Bitsizes, vgens \in GensSet :
           Verify(vlabel, c, vn, vgens)

Spec == Init /\ [][Next]_vars

(***************************************************************************)
(* The unit tests and the single-party variant of range_proof.rs: their    *)
(* runs are the behaviours of SingleSpec, which take n, values, blindings, *)
(* rng and oracle as their arguments and leave the aggregated protocol     *)
(* where it is.                                                            *)
(***************************************************************************)
aggregated == <<mode, gens, label, pc, transcript, party, dealer, value_commitments,
                poly_commitments, proof_shares, proved, wire, parsed, verified, freed>>

\* the arguments of test_delta: n = 256 as in the test, and smaller ones
DeltaBitsizes == {1, 2, 8, 256}
DeltaValues == {[j \in 1 .. k |-> 5] : k \in 1 .. PartyCapacity}
\* the bitsizes of the single-party proofs
SingleBitsizes == {4, 8}

SingleInit ==
    /\ mode = "single"
    /\ gens = [gens_capacity |-> GensCapacity, party_capacity |-> PartyCapacity]
    /\ label = 1
    /\ pc = "done"
    /\ transcript = transcript_new(label)
    /\ party = <<>>
    /\ dealer = [stage |-> "None"]
    /\ value_commitments = <<>>
    /\ poly_commitments = <<>>
    /\ proof_shares = <<>>
    /\ proved = Nothing
    /\ wire = <<>>
    /\ parsed = Nothing
    /\ verified = Nothing
    /\ freed = <<>>
    /\ ops = <<>>
    /\ blindings = <<2>>
    /\ oracle \in 0 .. (NumOracles - 1)
    /\ rng \in {[seed |-> sd, ctr |-> 0] : sd \in 0 .. (NumSeeds - 1)}
    /\ \/ /\ n \in DeltaBitsizes
          /\ values \in DeltaValues
          /\ single \in {[pc |-> "start", test |-> "delta", y |-> y, z |-> z] :
                             y \in Scalars, z \in Scalars}
       \/ /\ n \in SingleBitsizes
          /\ values \in {<<v>> : v \in ValueSet}
          /\ single = [pc |-> "start", test |-> "proof"]

\* tests::test_delta, and the three deltas of the source on its arguments
TestDelta ==
    /\ single.pc = "start"
    /\ single.test = "delta"
    /\ single' = [pc |-> "done", test |-> "delta", y |-> single.y, z |-> single.z,
                  power_g |-> test_delta_power_g(n, single.y, single.z),
                  delta_1 |-> delta(n, 1, single.y, single.z),
                  delta |-> delta(n, m, single.y, single.z),
                  single_delta |-> single_delta(n, single.y, single.z),
                  messages_delta |-> messages_delta(n, m, single.y, single.z)]
    /\ UNCHANGED <<aggregated, n, values, blindings, oracle, rng, ops>>

\* RangeProof::generate_proof(generators.share(0), transcript, rng, n, v,
\* v_blinding) on a transcript created with label
GenerateProof ==
    /\ single.pc = "start"
    /\ single.test = "proof"
    /\ LET r == generate_proof(transcript_new(label), rng, n, values[1], blindings[1],
                               oracle)
       IN  single' = [pc |-> "proved", test |-> "proof", proof |-> r.proof,
                      transcript |-> r.transcript, challenges |-> r.challenges]
    /\ rng' = advance(rng, 4 + 2 * n)
    /\ ops' = Append(ops, [code |-> "generate_proof", v |-> values[1], n |-> n,
                           trace |-> generate_proof_ops(values[1], n)])
    /\ UNCHANGED <<aggregated, n, values, blindings, oracle>>

\* range_proof.verify(generators.share(0), transcript, rng, n) on a
\* transcript created with vlabel, the verifier's RNG giving c
SingleVerify(vlabel, c) ==
    /\ single.pc = "proved"
    /\ LET r == single_verify(single.proof, transcript_new(vlabel), c, n, oracle)
       IN  single' = [pc |-> "done", test |-> "proof", proof |-> single.proof,
                      transcript |-> single.transcript,
                      challenges |-> single.challenges,
                      vlabel |-> vlabel, c |-> c, result |-> r.result,
                      vtranscript |-> r.transcript, vchallenges |-> r.challenges]
    /\ UNCHANGED <<aggregated, n, values, blindings, oracle, rng, ops>>

SingleNext ==
    \/ TestDelta
    \/ GenerateProof
    \/ \E vlabel \in Labels, c \in VerifierDraws : SingleVerify(vlabel, c)

SingleSpec == SingleInit /\ [][SingleNext]_vars

(***************************************************************************)
(* The inner-product argument on its own: InnerProductProof::create on     *)
(* vectors a, b of a power-of-two length, generators G and H (H scaled by  *)
(* the powers of a factor, as the range proof hands it) and Q = w * B, one *)
(* turn of its loop at a time.  The loop is never blocked: IpaSpec is fair *)
(* to its steps.                                                           *)
(***************************************************************************)
IpaLengths == {1, 2, 4, 8, 16}
IpaSeeds == 0 .. 2

\* the arguments of create for the length len, the seeds sa and sb of the
\* vectors, Q = w * B and the factor f of H
IpaArguments(len, sa, sb, w, f) ==
    [a |-> [i \in 1 .. len |-> RandomAt(sa, i)],
     b |-> [i \in 1 .. len |-> RandomAt(sb, i + 5)],
     G |-> [i \in 1 .. len |-> gens_G(GensCapacity, PartyCapacity)[i]],
     H |-> [i \in 1 .. len |-> PMul(Pow(f, i - 1), gens_H(GensCapacity, PartyCapacity)[i])],
     Q |-> PMul(w, B)]

IpaInit ==
    /\ mode = "ipa"
    /\ gens = [gens_capacity |-> GensCapacity, party_capacity |-> PartyCapacity]
    /\ label = 1
    /\ pc = "done"
    /\ transcript = transcript_new(label)
    /\ party = <<>>
    /\ dealer = [stage |-> "None"]
    /\ value_commitments = <<>>
    /\ poly_commitments = <<>>
    /\ proof_shares = <<>>
    /\ proved = Nothing
    /\ wire = <<>>
    /\ parsed = Nothing
    /\ verified = Nothing
    /\ freed = <<>>
    /\ ops = <<>>
    /\ values = <<5>>
    /\ blindings = <<2>>
    /\ oracle \in 0 .. (NumOracles - 1)
    /\ rng \in {[seed |-> sd, ctr |-> 0] : sd \in 0 .. (NumSeeds - 1)}
    /\ n \in IpaLengths
    /\ \E sa \in IpaSeeds, sb \in IpaSeeds, w \in {1, 3}, f \in {1, 2} :
           single = [pc |-> "rounds", test |-> "ipa",
                     args |-> IpaArguments(n, sa, sb, w, f),
                     st |-> [transcript |-> transcript_new(label),
                             Q |-> IpaArguments(n, sa, sb, w, f).Q,
                             G |-> IpaArguments(n, sa, sb, w, f).G,
                             H |-> IpaArguments(n, sa, sb, w, f).H,
                             a |-> IpaArguments(n, sa, sb, w, f).a,
                             b |-> IpaArguments(n, sa, sb, w, f).b,
                             L_vec |-> <<>>, R_vec |-> <<>>]]

\* one turn of `while n != 1`
IpaRound ==
    /\ single.pc = "rounds"
    /\ Len(single.st.a) > 1
    /\ \E terms \in {ipa_round_terms(single.st)} :
       \E L \in {compress(multiscalar_mul(terms.L_scalars, terms.L_points))},
          R \in {compress(multiscalar_mul(terms.R_scalars, terms.R_points))} :
       \E tL \in {commit_point(single.st.transcript, "L", L)} :
       \E t1 \in {commit_point(tL, "R", R)} :
       \E u \in {challenge_value(t1, "u", oracle)} :
       \E u_inv \in {Inv(u)} :
           single' = [single EXCEPT !.st = ipa_round_fold(single.st, L, R, t1, u, u_inv)]
    /\ UNCHANGED <<aggregated, n, values, blindings, oracle, rng, ops>>

\* the loop is left: the proof is the pairs and the two scalars left
IpaEmit ==
    /\ single.pc = "rounds"
    /\ Len(single.st.a) <= 1
    /\ single' = [pc |-> "done", test |-> "ipa", args |-> single.args, st |-> single.st,
                  proof |-> [L_vec |-> single.st.L_vec, R_vec |-> single.st.R_vec,
                             a |-> single.st.a[1], b |-> single.st.b[1]]]
    /\ UNCHANGED <<aggregated, n, values, blindings, oracle, rng, ops>>

IpaNext ==
    \/ IpaRound
    \/ IpaEmit

IpaSpec == IpaInit /\ [][IpaNext]_vars /\ WF_vars(IpaNext)

(***************************************************************************)
(* The properties of the runs.                                             *)
(***************************************************************************)
\* every value fits in n bits
InRangeInputs == \A j \in Parties : values[j] < 2 ^ n

\* the arguments pass the checks of prove_multiple
ValidArguments ==
    /\ Len(values) = Len(blindings)
    /\ ValidBitsize(n)
    /\ gens.gens_capacity >= n
    /\ gens.party_capacity >= m

\* the proving side has returned
Returned == pc \notin {"start", "parties"}

\* the bytes handed to from_bytes are the bytes of to_bytes
Untampered == proved.ok /\ wire = to_bytes(proved.val)

\* verify was called as the prover proved: the same label, bitsize and generators
SameSetup ==
    /\ verified.ok
    /\ verified.label = label
    /\ verified.n = n
    /\ verified.gens = gens

\* the positions (from 0) of the parties whose value does not fit in n bits
DishonestIndices == SelectSeq([j \in Parties |-> j - 1], LAMBDA k : values[k + 1] >= 2 ^ n)

\* sum over the parties of z^j * (v_j - (v_j mod 2^n)): what the committed
\* values exceed the values proved by, weighted as the verifier weights them
Excess(z) ==
    SumSeq([j \in Parties |->
               Mul(Pow(z, j - 1), FromU64(values[j] - (values[j] % (2 ^ n))))], m)

\* C1: completeness: with valid arguments and every value in [0, 2^n),
\* prove_multiple returns Ok, and verify of the proof on the commitments
\* commit(v_j, blinding_j), the same generators, the same n and a transcript
\* of the same label returns Ok, whatever the verifier's RNG gives
C1_Completeness ==
    (mode = "prove_multiple" /\ ValidArguments /\ InRangeInputs) =>
        /\ Returned => proved.ok
        /\ (SameSetup /\ Untampered) => (verified.result = "Ok" /\ verified.direct = "Ok")

C1_Witness ==
    /\ mode = "prove_multiple" /\ ValidArguments /\ InRangeInputs
    /\ m = 2
    /\ SameSetup /\ Untampered
    /\ verified.result = "Ok"

C3_DishonestParties ==
    (mode = "aggregation" /\ dealer.stage = "consumed" /\ ~InRangeInputs) =>
        /\ proved = [ok |-> FALSE, err |-> "MalformedProofShares",
                     bad_shares |-> DishonestIndices]
        /\ wire = <<>>

C3_Witness ==
    /\ mode = "aggregation" /\ dealer.stage = "consumed"
    /\ m = 2 /\ values[1] < 2 ^ n /\ values[2] >= 2 ^ n
    /\ ~proved.ok
    /\ proved.bad_shares = <<1>>

\* C4: no party in AwaitingPolyChallenge answers a PolyChallenge whose x
\* is 0: no ProofShare evaluated at x = 0 leaves a party
C4_ZeroChallengeRejected ==
    \A k \in 1 .. Len(proof_shares) : proof_shares[k].x # 0

\* the stages of a party in order
Rank(stage) ==
    CASE stage = "AwaitingPosition" -> 0
      [] stage = "AwaitingValueChallenge" -> 1
      [] stage = "AwaitingPolyChallenge" -> 2
      [] OTHER -> 3

\* how many of the messages sent came from position j
SentBy(msgs, j) == Cardinality({k \in 1 .. Len(msgs) : msgs[k][1] = j})
SharesBy(shares, j) == Cardinality({k \in 1 .. Len(shares) : shares[k].j = j})

\* a party has sent one ValueCommitment once past AwaitingPosition, one
\* PolyCommitment once past AwaitingValueChallenge, one ProofShare once
\* consumed, and nothing else
SentAsStaged(p, vcs, pcs, shares, j) ==
    /\ SentBy(vcs, j - 1) = (IF Rank(p[j].stage) >= 1 THEN 1 ELSE 0)
    /\ SentBy(pcs, j - 1) = (IF Rank(p[j].stage) >= 2 THEN 1 ELSE 0)
    /\ SharesBy(shares, j - 1) = (IF Rank(p[j].stage) >= 3 THEN 1 ELSE 0)

\* C5: a party moves AwaitingPosition -> AwaitingValueChallenge ->
\* AwaitingPolyChallenge -> consumed one stage at a time, never back and
\* never twice, and what it has sent is one message for each stage it left
C5_Lifecycle ==
    [][\A j \in DOMAIN party' :
           /\ IF j \in DOMAIN party
              THEN Rank(party'[j].stage) \in
                       {Rank(party[j].stage), Rank(party[j].stage) + 1}
              ELSE party'[j].stage = "AwaitingPosition"
           /\ SentAsStaged(party', value_commitments', poly_commitments',
                           proof_shares', j)]_vars

C5_Witness ==
    /\ m = 2 /\ Len(party) = m
    /\ \A j \in Parties : party[j].stage = "consumed"
    /\ \A j \in Parties : SentAsStaged(party, value_commitments, poly_commitments,
                                       proof_shares, j)

\* C6: a proof made on a transcript of one label does not verify on a
\* transcript of another label, everything else being as the prover had it
C6_TranscriptBinding ==
    (verified.ok /\ Untampered /\ verified.n = n /\ verified.gens = gens
         /\ verified.label # label) =>
        /\ verified.result = "VerificationError"
        /\ verified.direct = "VerificationError"

C6_Witness ==
    /\ verified.ok /\ Untampered /\ verified.n = n /\ verified.gens = gens
    /\ verified.label # label
    /\ verified.c = 0
    /\ verified.result = "VerificationError"

\* the exponent of a power of two
Log2(x) == CHOOSE k \in 0 .. 30 : 2 ^ k = x

\* the operations of a log and their labels, without the data
LogOrder(log) == [i \in 1 .. Len(log) |-> <<log[i][1], log[i][2]>>]

\* the order the spec gives for mm parties and k rounds of the IPA
ExpectedOrder(mm, k) ==
    << <<"new", "label">>, <<"commit", "dom-sep">> >>
        \o [j \in 1 .. mm |-> <<"commit", "V">>]
        \o << <<"commit", "A">>, <<"commit", "S">>,
              <<"challenge", "y">>, <<"challenge", "z">>,
              <<"commit", "T_1">>, <<"commit", "T_2">>,
              <<"challenge", "x">>,
              <<"commit", "t_x">>, <<"commit", "t_x_blinding">>,
              <<"commit", "e_blinding">>,
              <<"challenge", "w">> >>
        \o [i \in 1 .. 3 * k |->
               IF i % 3 = 1 THEN <<"commit", "L">>
               ELSE IF i % 3 = 2 THEN <<"commit", "R">>
               ELSE <<"challenge", "u">>]

\* C7: in an honest run the prover's transcript holds, in this order, the
\* domain separator, V_1..V_m, A, S, the draws of y and z, T_1, T_2, the
\* draw of x, t_x, t_x_blinding, e_blinding, the draw of w and the rounds of
\* the IPA; verify on a transcript of the same label ends with the same
\* transcript, and the y, z, x, w it recomputes are the prover's
C7_TranscriptAgreement ==
    (mode = "prove_multiple" /\ proved.ok) =>
        /\ LogOrder(transcript.log) = ExpectedOrder(m, Log2(n * m))
        /\ (SameSetup /\ Untampered) =>
               /\ verified.transcript = transcript
               /\ verified.challenges =
                      Some([y |-> dealer.value_challenge.y,
                            z |-> dealer.value_challenge.z,
                            x |-> dealer.poly_challenge.x,
                            w |-> dealer.w[1]])

C7_Witness ==
    /\ mode = "prove_multiple" /\ proved.ok /\ m = 2
    /\ SameSetup /\ Untampered
    /\ Len(transcript.log) = 2 + m + 11 + 3 * Log2(n * m)
    /\ verified.transcript = transcript

\* C8: to_bytes gives 32 * (9 + 2 * log2(n * m)) bytes; from_bytes of them
\* gives back the proof, field for field; and the proof read back verifies
\* exactly when the proof itself does
C8_RoundTrip ==
    Untampered =>
        /\ Len(wire) = 32 * (9 + 2 * Log2(n * m))
        /\ pc \in {"parsed", "done"} => (parsed.ok /\ parsed.val = proved.val)
        /\ verified.ok => verified.result = verified.direct

C8_Witness ==
    /\ Untampered /\ m = 2
    /\ Len(wire) = 32 * 17
    /\ parsed.ok /\ parsed.val = proved.val
    /\ verified.ok /\ verified.result = "Ok" /\ verified.direct = "Ok"

\* the 32 bytes of element e (from 0) are the canonical encoding of a scalar
Canonical(w, e) == \E x \in Scalars : SubSeq(w, 32 * e + 1, 32 * e + 32) = scalar_bytes(x)

\* the bytes are not a proof: the length is not a multiple of 32, or there
\* are fewer than 7 elements, or the elements after the seventh are not
\* k L's, k R's and two scalars, or one of t_x, t_x_blinding, e_blinding, a,
\* b is not canonical
Malformed(w) ==
    \/ Len(w) % 32 # 0
    \/ Len(w) < 7 * 32
    \/ ~(\E k \in 0 .. Len(w) : Len(w) = 32 * (7 + 2 * k + 2))
    \/ \E e \in {4, 5, 6, (Len(w) \div 32) - 2, (Len(w) \div 32) - 1} : ~Canonical(w, e)

\* from_bytes has been called
FromBytesCalled == pc = "parsed" \/ (pc = "done" /\ verified.ok)

\* C9: from_bytes fails with FormatError on bytes that are malformed, and
\* on no others
C9_RejectsMalformed ==
    FromBytesCalled =>
        IF Malformed(wire) THEN parsed = FormatError ELSE parsed.ok

C9_Witness ==
    /\ FromBytesCalled
    /\ Len(wire) = 32 * 15
    /\ ~Canonical(wire, 6)
    /\ parsed = FormatError

\* C10: prove_multiple checks the number of blinding factors, then the
\* bitsize, then the capacities of the generators, and returns the error of
\* the first check that fails without proving anything; verify checks the
\* bitsize, then the capacities, and returns the error of the first check
\* that fails
C10_ValidationOrder ==
    /\ (mode = "prove_multiple" /\ pc # "start") =>
           IF Len(values) # Len(blindings)
           THEN proved = Err("WrongNumBlindingFactors") /\ party = <<>> /\ pc = "done"
           ELSE IF ~ValidBitsize(n)
           THEN proved = Err("InvalidBitsize") /\ party = <<>> /\ pc = "done"
           ELSE IF gens.gens_capacity < n \/ gens.party_capacity < m
           THEN proved = Err("InvalidGeneratorsLength") /\ party = <<>> /\ pc = "done"
           ELSE Len(party) = m
    /\ verified.ok =>
           /\ IF ~ValidBitsize(verified.n)
              THEN verified.result = "InvalidBitsize"
              ELSE IF verified.gens.gens_capacity < verified.n
                      \/ verified.gens.party_capacity < m
              THEN verified.result = "InvalidGeneratorsLength"
              ELSE verified.result \in {"Ok", "VerificationError"}
           /\ verified.result \in {"InvalidBitsize", "InvalidGeneratorsLength"} =>
                  (verified.drawn = 0 /\ verified.transcript = transcript_new(verified.label))

C10_Witness ==
    /\ mode = "prove_multiple" /\ pc = "done"
    /\ Len(values) # Len(blindings) /\ ~ValidBitsize(n)
    /\ proved = Err("WrongNumBlindingFactors")

\* C11: Party::new creates no party state when n is not 8, 16, 32 or 64 or
\* when the generators hold fewer than n slots: wherever a party exists, the
\* bitsize is valid and fits the generators
C11_PartyNewValidates ==
    party # <<>> => (ValidBitsize(n) /\ gens.gens_capacity >= n)

\* some point of the proof is not the encoding of a point
Undecompressable(proof) ==
    \/ \E bs \in {proof.A, proof.S, proof.T_1, proof.T_2} : decompress(bs) = None
    \/ \E k \in 1 .. Len(proof.ipp_proof.L_vec) :
           \/ decompress(proof.ipp_proof.L_vec[k]) = None
           \/ decompress(proof.ipp_proof.R_vec[k]) = None

\* the arguments of the call of verify passed its checks
VerifyValidated == verified.ok /\ verify_validate(verified.gens, verified.n, m) = "Ok"

\* C12: once the arguments have passed the checks, verify rejects in one way
\* only: a point that does not decompress and a multiscalar multiplication
\* that is not the identity both give VerificationError, after the same one
\* draw from the RNG
C12_OneVerificationError ==
    VerifyValidated =>
        /\ verified.result \in {"Ok", "VerificationError"}
        /\ verified.drawn = 1
        /\ Undecompressable(parsed.val) => verified.result = "VerificationError"

C12_Witness ==
    /\ VerifyValidated
    /\ decompress(parsed.val.A) # None
    /\ decompress(parsed.val.ipp_proof.L_vec[1]) = None
    /\ verified.result = "VerificationError"

\* (z - z^2) * sum_{i<n*m} y^i - sum_{j=1..m} z^(j+2) * sum_{i<n} 2^i
DeltaFormula(nn, mm, y, z) ==
    Sub(Mul(Sub(z, Mul(z, z)), SumSeq([i \in 1 .. nn * mm |-> Pow(y, i - 1)], nn * mm)),
        SumSeq([j \in 1 .. mm |->
                   Mul(Pow(z, j + 2), SumSeq([i \in 1 .. nn |-> Pow(2, i - 1)], nn))], mm))

Secrets(st) ==
    IF st.stage = "AwaitingPosition" THEN <<FromU64(st.v), st.v_blinding>>
    ELSE IF st.stage = "AwaitingValueChallenge"
    THEN <<FromU64(st.v), st.v_blinding, st.a_blinding, st.s_blinding>> \o st.s_L \o st.s_R
    ELSE <<st.v_blinding, st.a_blinding, st.s_blinding>> \o st.l_poly[2]

\* C15: whenever a party state has been consumed (by assign_position, by
\* either apply_challenge) the memory that held v, v_blinding, a_blinding,
\* s_blinding, s_L and s_R holds zeros
C15_SecretsZeroized ==
    \A i \in 1 .. Len(freed) :
        \A k \in 1 .. Len(Secrets(freed[i])) : Secrets(freed[i])[k] = 0

\* the operations of a bit loop of the code on a value
BitLoopOps(code, v, k) ==
    IF code = "assign_position" THEN assign_position_ops(v, k) ELSE generate_proof_ops(v, k)

\* C16: the operations executed while computing A (the branch taken and the
\* kind of group operation at each bit index) are the same for any two
\* values with the same n: every bit loop that has run executed what the
\* same code executes for any other value
C16_ValueIndependentBitLoop ==
    \A i \in 1 .. Len(ops) :
        \A v2 \in ValueSet : ops[i].trace = BitLoopOps(ops[i].code, v2, ops[i].n)

\* the operations, labels and data of verify on a transcript of label lb,
\* up to the draw of w, for the proof, the commitments Vs and the bitsize vn
VerifierSequence(proof, Vs, lb, vn) ==
    << <<"new", "label", <<lb>> >>, <<"commit", "dom-sep", <<vn, Len(Vs)>> >> >>
        \o [j \in 1 .. Len(Vs) |-> <<"commit", "V", compress(Vs[j])>>]
        \o << <<"commit", "A", proof.A>>, <<"commit", "S", proof.S>>,
              <<"challenge", "y", <<>> >>, <<"challenge", "z", <<>> >>,
              <<"commit", "T_1", proof.T_1>>, <<"commit", "T_2", proof.T_2>>,
              <<"challenge", "x", <<>> >>,
              <<"commit", "t_x", scalar_bytes(proof.t_x)>>,
              <<"commit", "t_x_blinding", scalar_bytes(proof.t_x_blinding)>>,
              <<"commit", "e_blinding", scalar_bytes(proof.e_blinding)>>,
              <<"challenge", "w", <<>> >> >>

\* the operations of the IPA's verification_scalars for k rounds
IpaOrder(k) ==
    [i \in 1 .. 3 * k |->
        IF i % 3 = 1 THEN <<"commit", "L">>
        ELSE IF i % 3 = 2 THEN <<"commit", "R">>
        ELSE <<"challenge", "u">>]

\* C17: once its arguments are validated, verify does on its transcript the
\* domain separator of n and m, V_1..V_m in input order, A, S, the draws of
\* y and z, T_1, T_2, the draw of x, t_x, t_x_blinding, e_blinding, the draw
\* of w, and right after it the operations of the IPA's
\* verification_scalars; it draws one scalar, c, from the RNG and nothing
\* for c from the transcript
C17_VerifierOrder ==
    VerifyValidated =>
        LET log == verified.transcript.log
            upto_w == 13 + m
        IN  /\ Len(log) = upto_w + 3 * Len(parsed.val.ipp_proof.L_vec)
            /\ SubSeq(log, 1, upto_w) =
                   VerifierSequence(parsed.val, Commitments, verified.label, verified.n)
            /\ LogOrder(SubSeq(log, upto_w + 1, Len(log))) =
                   IpaOrder(Len(parsed.val.ipp_proof.L_vec))
            /\ verified.drawn = 1

C17_Witness ==
    /\ VerifyValidated
    /\ m = 2
    /\ Commitments[1] # Commitments[2]
    /\ verified.transcript.log[3] = <<"commit", "V", compress(Commitments[1])>>
    /\ verified.transcript.log[4] = <<"commit", "V", compress(Commitments[2])>>
    /\ verified.transcript.log[13 + m] = <<"challenge", "w", <<>> >>
    /\ verified.transcript.log[14 + m][2] = "L"
    /\ verified.drawn = 1

\* the order of the single-party transcript for k rounds of the IPA
SingleOrder(k) ==
    << <<"new", "label">>,
       <<"commit", "">>, <<"commit", "">>, <<"commit", "">>,
       <<"challenge", "">>, <<"challenge", "">>,
       <<"commit", "">>, <<"commit", "">>,
       <<"challenge", "">>,
       <<"commit", "">>, <<"commit", "">>, <<"commit", "">>,
       <<"challenge", "">> >> \o IpaOrder(k)

\* the single-party proof was generated and verified
SingleVerified == single.test = "proof" /\ single.pc = "done"

\* C18: in the single-party variant generate_proof and verify do the same
\* operations on their transcripts in the same order (V, A, S; y, z; T_1,
\* T_2; x; t_x, t_x_blinding, e_blinding; w; the IPA) with the same data,
\* and on a transcript with the prover's label verify recomputes the
\* prover's y, z, x, w
C18_SingleTranscriptAgreement ==
    SingleVerified =>
        /\ LogOrder(single.transcript.log) = SingleOrder(Log2(n))
        /\ Tail(single.vtranscript.log) = Tail(single.transcript.log)
        /\ SubSeq(single.transcript.log, 2, 4) =
               << <<"commit", "", compress(single.proof.V)>>,
                  <<"commit", "", compress(single.proof.A)>>,
                  <<"commit", "", compress(single.proof.S)>> >>
        /\ single.vlabel = label =>
               /\ single.vtranscript = single.transcript
               /\ single.vchallenges = single.challenges

C18_Witness ==
    /\ SingleVerified
    /\ n = 8
    /\ single.vlabel = label
    /\ single.vchallenges = single.challenges
    /\ Len(single.vtranscript.log) = 13 + 3 * 3
    /\ single.result = "Ok"

\* the sum of coefficient * base over a list of <<coefficient, base>>
PairSum(pairs) ==
    [d \in 1 .. Dim |->
        SumSeq([i \in 1 .. Len(pairs) |-> Mul(pairs[i][1], pairs[i][2][d])], Len(pairs))]

\* the coefficients and bases of the verification equation for a proof
\* whose points are pt, the commitments Vs, the bitsize nn, the batching
\* scalar c, the challenges ch, the IPA's challenges u and scalars s
EquationTable(proof, pt, Vs, nn, c, ch, u, s) ==
    LET mm == Len(Vs)
        a == proof.ipp_proof.a
        b == proof.ipp_proof.b
    IN  << <<1, pt.A>>, <<ch.x, pt.S>>,
           <<Mul(c, ch.x), pt.T_1>>, <<Mul(c, Mul(ch.x, ch.x)), pt.T_2>>,
           <<Sub(Neg(proof.e_blinding), Mul(c, proof.t_x_blinding)), B_blinding>>,
           <<Add(Mul(ch.w, Sub(proof.t_x, Mul(a, b))),
                 Mul(c, Sub(DeltaFormula(nn, mm, ch.y, ch.z), proof.t_x))), B>> >>
        \o [j \in 1 .. Len(u) |-> <<Mul(u[j], u[j]), pt.L[j]>>]
        \o [j \in 1 .. Len(u) |-> <<Mul(Inv(u[j]), Inv(u[j])), pt.R[j]>>]
        \o [k \in 1 .. nn * mm |->
               <<Sub(Neg(ch.z), Mul(a, s[k])), GenG((k - 1) \div nn, (k - 1) % nn)>>]
        \o [k \in 1 .. nn * mm |->
               <<Add(ch.z,
                     Mul(Pow(Inv(ch.y), k - 1),
                         Sub(Mul(Mul(Mul(ch.z, ch.z), Pow(ch.z, (k - 1) \div nn)),
                                 Pow(2, (k - 1) % nn)),
                             Mul(b, s[nn * mm - (k - 1)])))),
                 GenH((k - 1) \div nn, (k - 1) % nn)>>]
        \o [j \in 1 .. mm |-> <<Mul(c, Mul(Mul(ch.z, ch.z), Pow(ch.z, j - 1))), Vs[j]>>]

\* the points of a proof all of which decompress
ProofPoints(proof) ==
    [A |-> decompress(proof.A)[1], S |-> decompress(proof.S)[1],
     T_1 |-> decompress(proof.T_1)[1], T_2 |-> decompress(proof.T_2)[1],
     L |-> [j \in 1 .. Len(proof.ipp_proof.L_vec) |-> decompress(proof.ipp_proof.L_vec[j])[1]],
     R |-> [j \in 1 .. Len(proof.ipp_proof.R_vec) |-> decompress(proof.ipp_proof.R_vec[j])[1]]]

\* the equation for the verifier's call: the IPA's challenges are drawn
\* from the transcript as it stands after the draw of w
EquationHolds(proof, t_w, ch) ==
    LET u == ipa_challenges(t_w, oracle, proof.ipp_proof, Len(proof.ipp_proof.L_vec)).u
    IN  is_identity(PairSum(EquationTable(
            proof, ProofPoints(proof), Commitments, verified.n, verified.c, ch, u,
            [i \in 1 .. 2 ^ Len(u) |-> s_entry(u, i - 1, Len(u))])))

\* verify was called with valid arguments on a proof whose points all
\* decompress and whose IPA has log2(n * m) rounds
EquationApplies ==
    /\ VerifyValidated
    /\ ~Undecompressable(parsed.val)
    /\ 2 ^ Len(parsed.val.ipp_proof.L_vec) = verified.n * m

\* C19: verify returns Ok exactly when the sum of coefficient * base is the
\* identity, with 1 for A, x for S, c*x for T_1, c*x^2 for T_2, u_j^2 for
\* L_j, u_j^-2 for R_j, -e_blinding - c*t_x_blinding for B_blinding,
\* w*(t_x - a*b) + c*(delta(n,m,y,z) - t_x) for B, -z - a*s_i for G_i,
\* z + y^-i * (z^2 * z^(i div n) * 2^(i mod n) - b*s_(n*m-1-i)) for H_i and
\* c*z^2*z^j for V_j, G_i and H_i being the first n generators of each of
\* the first m parties in party order
C19_VerificationEquation ==
    EquationApplies =>
        (verified.result = "Ok" <=>
            EquationHolds(parsed.val,
                          verify_replay(parsed.val, Commitments,
                                        transcript_new(verified.label), verified.n,
                                        oracle).transcript,
                          verified.challenges[1]))

C19_Witness ==
    /\ EquationApplies
    /\ m = 2
    /\ verified.c = 1
    /\ verified.result = "Ok"
    /\ parsed.val.ipp_proof.a # 0
    /\ parsed.val.ipp_proof.b # 0

\* verify was called with valid arguments on a parsed proof whose IPA has a
\* number of rounds k with 2^k # n * m
WrongRoundCount ==
    /\ VerifyValidated
    /\ 2 ^ Len(parsed.val.ipp_proof.L_vec) # verified.n * m

HoldsPolys(j) ==
    /\ Len(party) = m
    /\ j \in Parties
    /\ party[j].stage = "AwaitingPolyChallenge"

\* the state party j was in before, which held s_L and s_R
BeforePolys(j) ==
    CHOOSE st \in {freed[i] : i \in 1 .. Len(freed)} :
        st.stage = "AwaitingValueChallenge" /\ st.j = j - 1

MessageOf(msgs, j) == (CHOOSE e \in {msgs[i] : i \in 1 .. Len(msgs)} : e[1] = j)[2]

\* C22: every ProofShare of a party has t_x = <l_vec, r_vec>, whatever the
\* challenges and the x it was handed; the coefficients t0, t1, t2 a party
\* held give t0 + x*t1 + x^2*t2 = <l0 + l1*x, r0 + r1*x> for every x; and the
\* share carries the V, A, S, T_1, T_2 the party published before
C22_ShareConsistency ==
    pc = "parties" =>
        /\ \A k \in 1 .. Len(proof_shares) :
               LET sh == proof_shares[k].share
               IN  /\ sh.t_x = inner_product(sh.l_vec, sh.r_vec)
                   /\ sh.value_commitment =
                          MessageOf(value_commitments, proof_shares[k].j)
                   /\ sh.poly_commitment =
                          MessageOf(poly_commitments, proof_shares[k].j)
        /\ \A i \in 1 .. Len(freed) :
               freed[i].stage = "AwaitingPolyChallenge" =>
                   \A xx \in Scalars :
                       poly2_eval(freed[i].t_poly, xx) =
                           inner_product(vecpoly_eval(freed[i].l_poly, xx),
                                         vecpoly_eval(freed[i].r_poly, xx))

C22_Witness ==
    /\ pc = "parties"
    /\ Len(proof_shares) = 2
    /\ proof_shares[1].x = 0
    /\ proof_shares[2].x # 0
    /\ proof_shares[2].share.t_x =
           inner_product(proof_shares[2].share.l_vec, proof_shares[2].share.r_vec)
    /\ proof_shares[2].share.value_commitment = MessageOf(value_commitments, 1)
    /\ proof_shares[2].share.t_x # 0

\* create has emitted its proof
IpaDone == single.pc = "done" /\ single.test = "ipa"

\* the challenges of the proof emitted, replayed from its pairs
IpaU ==
    ipa_challenges(transcript_new(label), oracle, single.proof,
                   Len(single.proof.L_vec)).u

\* s_0 .. s_(N-1) for the challenges u
IpaS(u) == [i \in 1 .. 2 ^ Len(u) |-> s_entry(u, i - 1, Len(u))]

\* <a*s, G> + <b*s^-1, H> + a*b*Q for the proof emitted
IpaLeft(u, s) ==
    LET arg == single.args
        len == Len(arg.a)
    IN  PairSum([i \in 1 .. len |-> <<Mul(single.proof.a, s[i]), arg.G[i]>>]
                    \o [i \in 1 .. len |-> <<Mul(single.proof.b, Inv(s[i])), arg.H[i]>>]
                    \o << <<Mul(single.proof.a, single.proof.b), arg.Q>> >>)

\* P + sum_j (u_j^2 * L_j + u_j^-2 * R_j), P = <a, G> + <b, H> + <a, b> * Q
IpaRight(u) ==
    LET arg == single.args
        len == Len(arg.a)
    IN  PairSum([i \in 1 .. len |-> <<arg.a[i], arg.G[i]>>]
                    \o [i \in 1 .. len |-> <<arg.b[i], arg.H[i]>>]
                    \o << <<inner_product(arg.a, arg.b), arg.Q>> >>
                    \o [j \in 1 .. Len(u) |->
                           <<Mul(u[j], u[j]), decompress(single.proof.L_vec[j])[1]>>]
                    \o [j \in 1 .. Len(u) |->
                           <<Mul(Inv(u[j]), Inv(u[j])), decompress(single.proof.R_vec[j])[1]>>])

\* C23: for vectors a, b of a power-of-two length N, generators G, H and a
\* point Q, the proof that create builds satisfies the verifier's equation
\* <a*s, G> + <b*s^-1, H> + a*b*Q = P + sum_j (u_j^2 * L_j + u_j^-2 * R_j),
\* the u_j being replayed from the transcript and s_i being the product of
\* u_j or 1/u_j by the bits of i; s_(N-1-i) = 1/s_i, and the s that
\* verification_scalars returns is this s; the proof built turn by turn is
\* the one create returns
C23_IpaCompleteness ==
    IpaDone =>
        /\ IpaLeft(IpaU, IpaS(IpaU)) = IpaRight(IpaU)
        /\ \A i \in 1 .. n : IpaS(IpaU)[n + 1 - i] = Inv(IpaS(IpaU)[i])
        /\ verification_scalars(single.proof, transcript_new(label), oracle).s = IpaS(IpaU)
        /\ single.proof =
               ipa_create(transcript_new(label), oracle, single.args.Q, single.args.G,
                          single.args.H, single.args.a, single.args.b).proof

C23_Witness ==
    /\ IpaDone
    /\ n = 16
    /\ single.proof.a # 0
    /\ single.proof.b # 0
    /\ single.args.H[2] # gens_H(GensCapacity, PartyCapacity)[2]
    /\ IpaLeft(IpaU, IpaS(IpaU)) = IpaRight(IpaU)
    /\ ~is_identity(IpaRight(IpaU))

\* the loop of create is running
IpaRunning == single.pc = "rounds" /\ single.test = "ipa"

\* a turn of the loop: the vectors are halved, one pair is appended to the
\* proof, and L, R and the draw of u are appended to the transcript
IpaTurn ==
    (IpaRunning /\ single'.pc = "rounds" /\ single' # single) =>
        /\ 2 * Len(single'.st.a) = Len(single.st.a)
        /\ 2 * Len(single'.st.b) = Len(single.st.b)
        /\ 2 * Len(single'.st.G) = Len(single.st.G)
        /\ 2 * Len(single'.st.H) = Len(single.st.H)
        /\ Len(single'.st.L_vec) = Len(single.st.L_vec) + 1
        /\ Len(single'.st.R_vec) = Len(single.st.R_vec) + 1
        /\ LogOrder(single'.st.transcript.log) =
               LogOrder(single.st.transcript.log) \o IpaOrder(1)

\* C24: for a length N = 2^k the loop of create ends after exactly k turns,
\* each of which halves a, b, G and H and appends one pair (L, R) to the
\* transcript and to the proof; it ends with vectors of length 1 whose
\* entries are the a and b of the proof, which has log2(N) pairs
C24_IpaTermination ==
    /\ [][IpaTurn]_vars
    /\ [](IpaRunning => Len(single.st.a) * 2 ^ Len(single.st.L_vec) = n)
    /\ [](IpaDone =>
              /\ Len(single.proof.L_vec) = Log2(n)
              /\ Len(single.proof.R_vec) = Log2(n)
              /\ single.st.a = <<single.proof.a>>
              /\ single.st.b = <<single.proof.b>>
              /\ LogOrder(single.st.transcript.log) =
                     << <<"new", "label">> >> \o IpaOrder(Log2(n)))
    /\ <>IpaDone

C24_Witness ==
    /\ IpaDone
    /\ n = 16
    /\ Len(single.proof.L_vec) = 4
    /\ Len(single.st.transcript.log) = 13
    /\ Len(single.st.G) = 1

\* C25: when prove_multiple returns WrongNumBlindingFactors, InvalidBitsize
\* or InvalidGeneratorsLength from its argument checks, the caller's
\* transcript is as it was created, nothing has been drawn from the RNG and
\* no party or dealer exists; when verify returns InvalidBitsize or
\* InvalidGeneratorsLength, the verifier's transcript is as it was created
\* and nothing has been drawn from the verifier's RNG
ArgumentErrors == {"WrongNumBlindingFactors", "InvalidBitsize", "InvalidGeneratorsLength"}

C25_RejectedInputFrame ==
    /\ (mode = "prove_multiple" /\ ~proved.ok /\ proved.err \in ArgumentErrors) =>
           /\ proved.err = prove_multiple_validate(values, blindings, gens, n)
           /\ transcript = transcript_new(label)
           /\ rng.ctr = 0
           /\ dealer = [stage |-> "None"]
           /\ value_commitments = <<>>
           /\ freed = <<>>
    /\ (verified.ok /\ verified.result \in ArgumentErrors) =>
           /\ verified.transcript = transcript_new(verified.label)
           /\ LogOrder(verified.transcript.log) = << <<"new", "label">> >>
           /\ verified.drawn = 0

C25_Witness ==
    /\ verified.ok
    /\ verified.result = "InvalidBitsize"
    /\ verified.n = 7
    /\ ValidBitsize(n)
    /\ verified.drawn = 0

====
